---- MODULE Spec2Model ----
(***************************************************************************)
(* State-machine model of the Kalshi trading system: the order book and    *)
(* market (core/market), the exchange websocket dispatch (core/client)     *)
(* and the executor's portfolio accounting (core/executor).                *)
(*                                                                         *)
(* Prices are FixedPointDollars, held as integers in units of 0.0001       *)
(* dollars; a price on the wire is held in units of 0.00001 dollars so     *)
(* that the ROUND_DOWN quantisation of the constructor is modelled.        *)
(***************************************************************************)
EXTENDS Integers, Sequences, FiniteSets, TLC

VARIABLES
    orderbook,          \* OrderBook object of the market (record of its fields)
    price_window,       \* BinaryMarket.price_window, a PriceBuffer (record)
    volatility,         \* BinaryMarket.volatility (None or the usable samples)
    volatility_window,  \* BinaryMarket.volatility_window (set at construction)
    ws,                 \* KalshiWebsocket object (record of its fields)
    last_frame,         \* history: the frame handled last and what became of it
    executor,           \* Executor object (record of its portfolio fields)
    lock,               \* Executor._execution_lock: "free" or the holding task
    pc,                 \* where each task of the event loop is suspended
    resp,               \* the REST response each suspended task will resume with
    exchange,           \* the exchange's view: resting orders, position, next id
    fill_queue,         \* fill frames sent by the exchange, not yet handled
    hist,               \* history of the latest placement and fill
    session,            \* TradingSessionRunner: flags of the session and its history
    link,               \* KalshiWebsocket.run: the connection and what was sent on it
    call,               \* the latest call of a pure function: arguments and result
    proc                \* per executor: its event flag and its processor tasks

feedVars == <<orderbook, price_window, volatility, volatility_window, ws,
              last_frame>>
execVars == <<executor, lock, pc, resp, exchange, fill_queue, hist>>
auxVars == <<session, link, call, proc>>
vars == <<feedVars, execVars, auxVars>>

-----------------------------------------------------------------------------
(* Bounds of the model *)

MaxSeq   == 3      \* envelope sequence numbers are drawn from 1..MaxSeq
MaxCount == 2      \* a level holds at most MaxCount contracts
MaxMsgId == 6      \* no frame is sent once message_id exceeds MaxMsgId
MaxOrders == 2     \* the exchange accepts at most MaxOrders orders in a run
MaxPending == 1    \* fill frames in flight to the websocket task

-----------------------------------------------------------------------------
(* Optional values: None is the empty sequence, a set value is <<v>> *)

None == <<>>
Some(v) == <<v>>
Val(o) == o[1]

Ticker == "KXETHD-X"

-----------------------------------------------------------------------------
(* FixedPointDollars *)

PRECISION == 10          \* wire units (0.00001) per FixedPointDollars unit
ZERO == 0
ONE == 10000
MID_DEFAULT == 5000

\* Decimal.quantize(_PRECISION, rounding=ROUND_DOWN): truncation toward zero
Quantize(n, unit) == IF n >= 0 THEN n \div unit ELSE -((-n) \div unit)

\* FixedPointDollars(value) for a price on the wire
FixedPointDollars(wire) == Quantize(wire, PRECISION)

FpdAdd(a, b) == a + b
FpdSub(a, b) == a - b
\* __truediv__ by an integer, then the constructor's ROUND_DOWN
FpdDiv(a, k) == Quantize(a, k)
MIN_PRICE == 100
MAX_PRICE == 9900

\* mutant: the complement is clamped to the valid price range
complement_clamped(p) ==
    IF FpdSub(ONE, p) > MAX_PRICE THEN MAX_PRICE
    ELSE IF FpdSub(ONE, p) < MIN_PRICE THEN MIN_PRICE
    ELSE FpdSub(ONE, p)

complement(p) == FpdSub(ONE, p)

-----------------------------------------------------------------------------
(* Sorted maps (SortedDict): functions over a finite set of keys *)

EmptyMap == <<>>
Keys(m) == DOMAIN m
MaxKey(m) == CHOOSE k \in DOMAIN m : \A j \in DOMAIN m : j <= k
MapSet(m, k, v) == [j \in (DOMAIN m) \cup {k} |-> IF j = k THEN v ELSE m[j]]
MapDel(m, k) == [j \in (DOMAIN m) \ {k} |-> m[j]]
MapGet(m, k, d) == IF k \in DOMAIN m THEN m[k] ELSE d

-----------------------------------------------------------------------------
(* OrderBook *)

OrderBookInit ==
    [timestamp |-> None, best_bid |-> ZERO, bid_size |-> 0,
     best_ask |-> ONE, ask_size |-> 0,
     yes_book |-> EmptyMap, no_book |-> EmptyMap,
     mid_price |-> MID_DEFAULT, bid_ask_spread |-> ZERO, seq_n |-> None]

\* mutant: the sum of bid and ask is not halved
calc_mid_price_nohalf(ob) ==
    LET has_ask == ob.best_ask < ONE
        has_bid == ob.best_bid > ZERO
    IN  IF has_ask /\ has_bid THEN FpdAdd(ob.best_bid, ob.best_ask)
        ELSE IF has_ask THEN ob.best_ask
        ELSE IF has_bid THEN ob.best_bid
        ELSE MID_DEFAULT

calc_mid_price(ob) ==
    LET has_ask == ob.best_ask < ONE
        has_bid == ob.best_bid > ZERO
    IN  IF has_ask /\ has_bid THEN FpdDiv(FpdAdd(ob.best_bid, ob.best_ask), 2)
        ELSE IF has_ask THEN ob.best_ask
        ELSE IF has_bid THEN ob.best_bid
        ELSE MID_DEFAULT

spread(ob) == FpdSub(ob.best_ask, ob.best_bid)

\* mutant: the rescan leaves the cached bid alone when the side is empty
_find_new_best_bid_keep(ob) ==
    IF Keys(ob.yes_book) = {}
    THEN ob
    ELSE [ob EXCEPT !.best_bid = MaxKey(ob.yes_book),
                    !.bid_size = ob.yes_book[MaxKey(ob.yes_book)]]

_find_new_best_bid(ob) ==
    IF Keys(ob.yes_book) = {}
    THEN [ob EXCEPT !.best_bid = ZERO, !.bid_size = 0]
    ELSE [ob EXCEPT !.best_bid = MaxKey(ob.yes_book),
                    !.bid_size = ob.yes_book[MaxKey(ob.yes_book)]]

\* mutant: takes the NO price itself as the ask, without the complement
_find_new_best_ask_nocomplement(ob) ==
    IF Keys(ob.no_book) = {}
    THEN [ob EXCEPT !.best_ask = ONE, !.ask_size = 0]
    ELSE [ob EXCEPT !.best_ask = MaxKey(ob.no_book),
                    !.ask_size = ob.no_book[MaxKey(ob.no_book)]]

_find_new_best_ask(ob) ==
    IF Keys(ob.no_book) = {}
    THEN [ob EXCEPT !.best_ask = ONE, !.ask_size = 0]
    ELSE [ob EXCEPT !.best_ask = complement(MaxKey(ob.no_book)),
                    !.ask_size = ob.no_book[MaxKey(ob.no_book)]]

\* the dict built from a list of [price, size] pairs, duplicates summed
RECURSIVE LevelDict(_)
LevelDict(levels) ==
    IF levels = <<>> THEN EmptyMap
    ELSE LET n     == Len(levels)
             d     == LevelDict(SubSeq(levels, 1, n - 1))
             price == FixedPointDollars(levels[n][1])
         IN  MapSet(d, price, MapGet(d, price, 0) + levels[n][2])

_apply_snapshot(ob, sequence_number, snapshot_msg) ==
    LET yes_dict == LevelDict(snapshot_msg.yes_dollars)
        no_dict  == LevelDict(snapshot_msg.no_dollars)
        b1 == [ob EXCEPT !.seq_n = Some(sequence_number),
                         !.yes_book = yes_dict, !.no_book = no_dict]
        b2 == IF Keys(b1.yes_book) # {}
              THEN [b1 EXCEPT !.best_bid = MaxKey(b1.yes_book),
                              !.bid_size = b1.yes_book[MaxKey(b1.yes_book)]]
              ELSE [b1 EXCEPT !.best_bid = ZERO, !.bid_size = 0]
        b3 == IF Keys(b2.no_book) # {}
              THEN [b2 EXCEPT !.best_ask = complement(MaxKey(b2.no_book)),
                              !.ask_size = b2.no_book[MaxKey(b2.no_book)]]
              ELSE [b2 EXCEPT !.best_ask = ONE, !.ask_size = 0]
        b4 == [b3 EXCEPT !.timestamp = None]
        b5 == [b4 EXCEPT !.mid_price = calc_mid_price(b4)]
    IN  [b5 EXCEPT !.bid_ask_spread = spread(b5)]

\* mutant: a YES level that is removed never triggers the rescan
DeltaYes_norescan(ob, price, delta) ==
    IF price \in Keys(ob.yes_book)
    THEN LET cnt == ob.yes_book[price] + delta
         IN  IF cnt <= 0
             THEN [ob EXCEPT !.yes_book = MapDel(ob.yes_book, price)]
             ELSE LET b == [ob EXCEPT !.yes_book = MapSet(ob.yes_book, price, cnt)]
                  IN  IF price = ob.best_bid THEN [b EXCEPT !.bid_size = cnt] ELSE b
    ELSE IF delta > 0
         THEN LET b == [ob EXCEPT !.yes_book = MapSet(ob.yes_book, price, delta)]
              IN  IF price > ob.best_bid
                  THEN [b EXCEPT !.best_bid = price, !.bid_size = delta]
                  ELSE b
         ELSE ob

\* the "yes" branch of _apply_delta
DeltaYes(ob, price, delta) ==
    IF price \in Keys(ob.yes_book)
    THEN LET cnt == ob.yes_book[price] + delta
         IN  IF cnt <= 0
             THEN LET b == [ob EXCEPT !.yes_book = MapDel(ob.yes_book, price)]
                  IN  IF price = ob.best_bid THEN _find_new_best_bid(b) ELSE b
             ELSE LET b == [ob EXCEPT !.yes_book = MapSet(ob.yes_book, price, cnt)]
                  IN  IF price = ob.best_bid THEN [b EXCEPT !.bid_size = cnt] ELSE b
    ELSE IF delta > 0
         THEN LET b == [ob EXCEPT !.yes_book = MapSet(ob.yes_book, price, delta)]
              IN  IF price > ob.best_bid
                  THEN [b EXCEPT !.best_bid = price, !.bid_size = delta]
                  ELSE b
         ELSE ob

\* mutant: a NO level absent from the book is inserted whatever the delta
DeltaNo_insertany(ob, price, delta) ==
    IF price \in Keys(ob.no_book)
    THEN LET cnt == ob.no_book[price] + delta
         IN  IF cnt <= 0
             THEN LET b == [ob EXCEPT !.no_book = MapDel(ob.no_book, price)]
                  IN  IF complement(price) = ob.best_ask
                      THEN _find_new_best_ask(b) ELSE b
             ELSE LET b == [ob EXCEPT !.no_book = MapSet(ob.no_book, price, cnt)]
                  IN  IF complement(price) = ob.best_ask
                      THEN [b EXCEPT !.ask_size = cnt] ELSE b
    ELSE LET b == [ob EXCEPT !.no_book = MapSet(ob.no_book, price, delta)]
         IN  IF complement(price) < ob.best_ask
             THEN [b EXCEPT !.best_ask = complement(price), !.ask_size = delta]
             ELSE b

\* the "no" branch of _apply_delta
DeltaNo(ob, price, delta) ==
    IF price \in Keys(ob.no_book)
    THEN LET cnt == ob.no_book[price] + delta
         IN  IF cnt <= 0
             THEN LET b == [ob EXCEPT !.no_book = MapDel(ob.no_book, price)]
                  IN  IF complement(price) = ob.best_ask
                      THEN _find_new_best_ask(b) ELSE b
             ELSE LET b == [ob EXCEPT !.no_book = MapSet(ob.no_book, price, cnt)]
                  IN  IF complement(price) = ob.best_ask
                      THEN [b EXCEPT !.ask_size = cnt] ELSE b
    ELSE IF delta > 0
         THEN LET b == [ob EXCEPT !.no_book = MapSet(ob.no_book, price, delta)]
              IN  IF complement(price) < ob.best_ask
                  THEN [b EXCEPT !.best_ask = complement(price), !.ask_size = delta]
                  ELSE b
         ELSE ob

_apply_delta(ob, sequence_number, delta_msg) ==
    LET price == FixedPointDollars(delta_msg.price_dollars)
        b1 == [ob EXCEPT !.seq_n = Some(sequence_number)]
        b2 == IF delta_msg.side = "yes" THEN DeltaYes(b1, price, delta_msg.delta)
              ELSE b1
        b3 == IF delta_msg.side = "no" THEN DeltaNo(b2, price, delta_msg.delta)
              ELSE b2
        b4 == [b3 EXCEPT !.timestamp = Some(delta_msg.ts)]
        b5 == [b4 EXCEPT !.mid_price = calc_mid_price(b4)]
    IN  [b5 EXCEPT !.bid_ask_spread = spread(b5)]

-----------------------------------------------------------------------------
(* PriceBuffer: a ring of capacity max_size *)

PriceBufferInit(max_size) ==
    [buffer |-> [i \in 0..(max_size - 1) |-> None], capacity |-> max_size,
     head |-> 0, size |-> 0]

\* mutant: a full buffer overwrites its oldest slot without advancing head
PriceBufferAdd_keephead(pb, elem) ==
    LET idx == (pb.head + pb.size) % pb.capacity
        b1  == [pb EXCEPT !.buffer[idx] = Some(elem)]
    IN  IF pb.size < pb.capacity
        THEN [b1 EXCEPT !.size = pb.size + 1]
        ELSE b1

PriceBufferAdd(pb, elem) ==
    LET idx == (pb.head + pb.size) % pb.capacity
        b1  == [pb EXCEPT !.buffer[idx] = Some(elem)]
    IN  IF pb.size < pb.capacity
        THEN [b1 EXCEPT !.size = pb.size + 1]
        ELSE [b1 EXCEPT !.head = (pb.head + 1) % pb.capacity]

PriceBufferGet(pb, idx) == Val(pb.buffer[(pb.head + idx) % pb.capacity])

Min(a, b) == IF a < b THEN a ELSE b
Max(a, b) == IF a > b THEN a ELSE b

get_last_n(pb, n) ==
    LET m == Min(n, pb.size)
    IN  [i \in 1..m |-> PriceBufferGet(pb, pb.size - m + i - 1)]

-----------------------------------------------------------------------------
(* BinaryMarket *)

\* calculate_volatility: None when no consecutive pair of samples has a
\* positive time difference; otherwise the realised volatility, which is
\* held symbolically as the sequence of <<price_return, delta_time>> pairs
\* whose mean of price_return^2 / delta_time it is the square root of.
RECURSIVE UsablePairs(_, _)
UsablePairs(samples, i) ==
    IF i > Len(samples) THEN <<>>
    ELSE LET dt == samples[i][2] - samples[i - 1][2]
             pr == samples[i][1] - samples[i - 1][1]
         IN  IF dt <= 0 THEN UsablePairs(samples, i + 1)
             ELSE <<(<<pr, dt>>)>> \o UsablePairs(samples, i + 1)

calculate_volatility(pw, window) ==
    LET size == Min(pw.size, window)
        price_values == get_last_n(pw, size)
        variance_values == UsablePairs(price_values, 2)
    IN  IF variance_values = <<>> THEN None ELSE Some(variance_values)

\* mutant: the snapshot is loaded and the price window is kept
_load_snapshot_keepwindow(m, seq_n, snapshot_msg) ==
    [m EXCEPT !.orderbook = _apply_snapshot(m.orderbook, seq_n, snapshot_msg)]

\* _load_snapshot on a market m = [orderbook, price_window,
\* volatility_window]
_load_snapshot(m, seq_n, snapshot_msg) ==
    [m EXCEPT !.price_window = PriceBufferInit(m.volatility_window),
              !.orderbook = _apply_snapshot(m.orderbook, seq_n, snapshot_msg)]

-----------------------------------------------------------------------------
(* KalshiWebsocket: subscription bookkeeping and gap rebuild.              *)
(* A coroutine that may raise returns [ws |-> new state, ok |-> FALSE      *)
(* when an exception left it, out |-> the frames it sent].  sent says       *)
(* whether ws.send succeeded.                                               *)

KalshiWebsocketInit ==
    [message_id |-> 1, ticker_to_sid |-> EmptyMap, sid_to_ticker |-> EmptyMap,
     pending_requests |-> EmptyMap, pending_snapshot |-> FALSE]

subscribe_orderbook(w, ticker, sent) ==
    LET w1 == [w EXCEPT !.pending_requests =
                            MapSet(w.pending_requests, w.message_id, ticker)]
        subscription == [id |-> w.message_id, cmd |-> "subscribe",
                         market_ticker |-> ticker]
    IN  IF ~sent THEN [ws |-> w1, ok |-> FALSE, out |-> <<>>]
        ELSE [ws |-> [w1 EXCEPT !.message_id = w.message_id + 1], ok |-> TRUE,
              out |-> <<subscription>>]

unsubscribe_orderbook(w, ticker, sent) ==
    IF ticker \notin Keys(w.ticker_to_sid)
    THEN [ws |-> w, ok |-> TRUE, out |-> <<>>]
    ELSE IF ~sent THEN [ws |-> w, ok |-> FALSE, out |-> <<>>]
    ELSE LET sid == w.ticker_to_sid[ticker]
             unsubscription == [id |-> w.message_id, cmd |-> "unsubscribe",
                                sids |-> <<sid>>]
             w1  == [w EXCEPT !.message_id = w.message_id + 1,
                              !.ticker_to_sid = MapDel(w.ticker_to_sid, ticker)]
         IN  IF sid \in Keys(w.sid_to_ticker)
             THEN [ws |-> [w1 EXCEPT !.sid_to_ticker = MapDel(w.sid_to_ticker, sid)],
                   ok |-> TRUE, out |-> <<unsubscription>>]
             ELSE [ws |-> w1, ok |-> FALSE, out |-> <<unsubscription>>] \* KeyError

\* the second of two coroutines awaited one after the other runs if the
\* first did not raise
Then(r1, r2) == IF ~r1.ok THEN r1 ELSE [r2 EXCEPT !.out = r1.out \o @]

\* mutant: the rebuild cycles the subscription without raising the flag
_rebuild_on_gap_noflag(w, ticker, sent1, sent2) ==
    LET r1 == unsubscribe_orderbook(w, ticker, sent1)
    IN  Then(r1, subscribe_orderbook(r1.ws, ticker, sent2))

\* mutant: the rebuild subscribes before it unsubscribes
_rebuild_on_gap_subfirst(w, ticker, sent1, sent2) ==
    LET w1 == [w EXCEPT !.pending_snapshot = TRUE]
        r1 == subscribe_orderbook(w1, ticker, sent2)
    IN  Then(r1, unsubscribe_orderbook(r1.ws, ticker, sent1))

_rebuild_on_gap(w, ticker, sent1, sent2) ==
    LET w1 == [w EXCEPT !.pending_snapshot = TRUE]
        r1 == unsubscribe_orderbook(w1, ticker, sent1)
    IN  Then(r1, subscribe_orderbook(r1.ws, ticker, sent2))

handle_gap(w, ticker, sent1, sent2) == _rebuild_on_gap(w, ticker, sent1, sent2)

-----------------------------------------------------------------------------
(* Frames of the order-book channel, as KalshiWebsocket.handle_msg and     *)
(* BinaryMarket.update treat them.  The runner wires market.on_gap_callback *)
(* to ws.handle_gap and on_update_callback to executor.on_market_update,   *)
(* which does nothing in the options executor.                             *)

\* mutant: the sequence check accepts any later sequence number
GapDetected_later(seq) ==
    orderbook.seq_n # None /\ Val(orderbook.seq_n) >= seq

GapDetected(seq) ==
    orderbook.seq_n # None /\ Val(orderbook.seq_n) # seq - 1

\* mutant: the snapshot is applied but pending_snapshot is left as it is
HandleSnapshot_keepflag(seq, msg) ==
    /\ price_window' = PriceBufferInit(volatility_window)
    /\ orderbook' = _apply_snapshot(orderbook, seq, msg)
    /\ volatility' = calculate_volatility(price_window', volatility_window)
    /\ last_frame' = [type |-> "orderbook_snapshot", seq |-> seq,
                       prev_seq |-> orderbook.seq_n,
                       outcome |-> "applied", gap_open |-> FALSE,
                       on_gap |-> <<>>, on_update |-> TRUE, sent |-> <<>>]
    /\ UNCHANGED <<volatility_window, ws>>

\* handle_msg on a valid orderbook_snapshot frame
HandleSnapshot(seq, msg) ==
    /\ ws' = [ws EXCEPT !.pending_snapshot = FALSE]
    /\ price_window' = PriceBufferInit(volatility_window)
    /\ orderbook' = _apply_snapshot(orderbook, seq, msg)
    /\ volatility' = calculate_volatility(price_window', volatility_window)
    /\ last_frame' = [type |-> "orderbook_snapshot", seq |-> seq,
                       prev_seq |-> orderbook.seq_n,
                       outcome |-> "applied", gap_open |-> FALSE,
                       on_gap |-> <<>>, on_update |-> TRUE, sent |-> <<>>]
    /\ UNCHANGED volatility_window

\* handle_msg on a valid orderbook_delta frame
HandleDelta(seq, msg) ==
    IF ws.pending_snapshot
    THEN /\ last_frame' = [last_frame EXCEPT !.type = "orderbook_delta",
                                              !.seq = seq,
                                              !.prev_seq = orderbook.seq_n,
                                              !.outcome = "dropped",
                                              !.on_gap = <<>>,
                                              !.on_update = FALSE,
                                              !.sent = <<>>]
         /\ UNCHANGED <<orderbook, price_window, volatility, volatility_window, ws>>
    ELSE IF GapDetected(seq)
    THEN /\ ws.message_id <= MaxMsgId
         /\ \E sent1 \in BOOLEAN, sent2 \in BOOLEAN :
              LET r == handle_gap(ws, Ticker, sent1, sent2) IN
                /\ ws' = r.ws
                /\ last_frame' = [type |-> "orderbook_delta", seq |-> seq,
                                   prev_seq |-> orderbook.seq_n,
                                   outcome |-> "gap", gap_open |-> TRUE,
                                   on_gap |-> <<Ticker>>, on_update |-> FALSE,
                                   sent |-> r.out]
         /\ UNCHANGED <<orderbook, price_window, volatility, volatility_window>>
    ELSE /\ orderbook' = _apply_delta(orderbook, seq, msg)
         /\ price_window' = PriceBufferAdd(price_window,
                                            <<orderbook'.mid_price, msg.ts>>)
         /\ volatility' = calculate_volatility(price_window', volatility_window)
         /\ last_frame' = [last_frame EXCEPT !.type = "orderbook_delta",
                                              !.seq = seq,
                                              !.prev_seq = orderbook.seq_n,
                                              !.outcome = "applied",
                                              !.on_gap = <<>>,
                                              !.on_update = TRUE,
                                              !.sent = <<>>]
         /\ UNCHANGED <<volatility_window, ws>>

\* handle_msg on an order-book frame that fails schema validation
HandleInvalidBookFrame(sent1, sent2) ==
    /\ ws.message_id <= MaxMsgId
    /\ ws' = handle_gap(ws, Ticker, sent1, sent2).ws
    /\ last_frame' = [last_frame EXCEPT !.type = "invalid", !.seq = 0,
                                         !.prev_seq = orderbook.seq_n,
                                         !.outcome = "rebuild",
                                         !.on_gap = <<>>,
                                         !.on_update = FALSE,
                                         !.sent = handle_gap(ws, Ticker,
                                                             sent1, sent2).out]
    /\ UNCHANGED <<orderbook, price_window, volatility, volatility_window>>

-----------------------------------------------------------------------------
(* Executor: portfolio accounting (core/executor/Executor.py).             *)
(* balance is held in hundredths of a dollar (the response's cents / 100   *)
(* dollars); order ids are the integers the exchange hands out.            *)

Abs(n) == IF n < 0 THEN -n ELSE n

ExecutorInit(max_inventory, minimum_balance) ==
    [inventory |-> 0, balance |-> 0, last_fill_ts |-> None,
     resting_orders |-> EmptyMap, unregistered_fills |-> EmptyMap,
     max_inventory |-> max_inventory, minimum_balance |-> minimum_balance]

is_long(order) ==
    (order.action = "buy" /\ order.side = "yes")
        \/ (order.action = "sell" /\ order.side = "no")

\* mutant: every order is clamped as a long order
constrain_order_longonly(e, order) ==
    LET max_delta == e.max_inventory - e.inventory
    IN  [order EXCEPT !.count = Max(0, Min(max_delta, order.count))]

constrain_order(e, order) ==
    LET max_delta == IF is_long(order) THEN e.max_inventory - e.inventory
                     ELSE e.inventory + e.max_inventory
    IN  [order EXCEPT !.count = Max(0, Min(max_delta, order.count))]

NS_PER_S == 1000000000

\* mutant: inventory is advanced by the fill's count instead of being set
update_inv_on_fill_add(e, fill) ==
    LET e1 == [e EXCEPT !.last_fill_ts = Some(fill.ts * NS_PER_S),
                        !.inventory = e.inventory + fill.count]
        id == fill.order_id
        e2 == IF id \in Keys(e1.resting_orders)
              THEN LET left == e1.resting_orders[id] - fill.count
                   IN  IF left <= 0
                       THEN [e1 EXCEPT !.resting_orders = MapDel(@, id)]
                       ELSE [e1 EXCEPT !.resting_orders = MapSet(@, id, left)]
              ELSE [e1 EXCEPT !.unregistered_fills =
                        MapSet(@, id, MapGet(@, id, 0) + fill.count)]
    IN  [e |-> e2, raised |-> Abs(e2.inventory) > e2.max_inventory]

\* raised: PositionLimitExceeded left the handler
update_inv_on_fill(e, fill) ==
    LET e1 == [e EXCEPT !.last_fill_ts = Some(fill.ts * NS_PER_S),
                        !.inventory = fill.post_position]
        id == fill.order_id
        e2 == IF id \in Keys(e1.resting_orders)
              THEN LET left == e1.resting_orders[id] - fill.count
                   IN  IF left <= 0
                       THEN [e1 EXCEPT !.resting_orders = MapDel(@, id)]
                       ELSE [e1 EXCEPT !.resting_orders = MapSet(@, id, left)]
              ELSE [e1 EXCEPT !.unregistered_fills =
                        MapSet(@, id, MapGet(@, id, 0) + fill.count)]
    IN  [e |-> e2, raised |-> Abs(e2.inventory) > e2.max_inventory]

\* the loop of _sync_orders: order_id -> remaining_count of the orders whose
\* status is "resting"
RestingOrders(response) ==
    [id \in {j \in Keys(response.orders) : response.orders[j].status = "resting"}
        |-> response.orders[id].remaining_count]

\* _sync_orders once the get_orders response is in: both maps are cleared
\* and the orders reported resting are taken over
_sync_orders(e, response) ==
    [e EXCEPT !.resting_orders = RestingOrders(response),
              !.unregistered_fills = EmptyMap]

\* _sync_balance once the balance response is in
_sync_balance(e, response) ==
    LET e1 == [e EXCEPT !.balance = response.balance]
    IN  [e |-> e1, raised |-> e1.balance < e1.minimum_balance * 100]

\* mutant: only a long position is held against max_inventory
_sync_inventory_signed(e, response) ==
    LET e1 == IF response.market_positions = <<>> THEN e
              ELSE [e EXCEPT !.inventory = response.market_positions[1]]
    IN  [e |-> e1, raised |-> e1.inventory > e1.max_inventory]

\* _sync_inventory once the positions response is in
_sync_inventory(e, response) ==
    LET e1 == IF response.market_positions = <<>> THEN e
              ELSE [e EXCEPT !.inventory = response.market_positions[1]]
    IN  [e |-> e1, raised |-> Abs(e1.inventory) > e1.max_inventory]

\* mutant: every id of the batch-cancel response is popped
CancelAcknowledged_all(e, response) ==
    [e EXCEPT !.resting_orders =
        [id \in {j \in Keys(@) : ~(j \in Keys(response.orders))} |-> @[id]]]

\* _cancel_outstanding_orders once the batch-cancel response is in: the ids
\* answered without an error are popped
CancelAcknowledged(e, response) ==
    [e EXCEPT !.resting_orders =
        [id \in {j \in Keys(@) : ~(j \in Keys(response.orders)
                                     /\ ~response.orders[j].error)} |-> @[id]]]

\* mutant: the unregistered fills of a returned order are read, not popped
PlacementRegistered_nopop(e, response) ==
    LET id == response.order_id
        net_count == response.remaining_count - MapGet(e.unregistered_fills, id, 0)
    IN  IF net_count > 0
        THEN [e EXCEPT !.resting_orders = MapSet(@, id, net_count)]
        ELSE e

\* _place_batch_order once the batch-create response is in
PlacementRegistered(e, response) ==
    LET id == response.order_id
        unregistered == MapGet(e.unregistered_fills, id, 0)
        e1 == [e EXCEPT !.unregistered_fills =
                            IF id \in Keys(@) THEN MapDel(@, id) ELSE @]
        net_count == response.remaining_count - unregistered
    IN  IF net_count > 0
        THEN [e1 EXCEPT !.resting_orders = MapSet(@, id, net_count)]
        ELSE e1

-----------------------------------------------------------------------------
(* The exchange, as the REST endpoints and the fill channel show it *)

ExchangeInit == [orders |-> EmptyMap, position |-> 0, next_id |-> 1]

\* c contracts of resting order id are matched: the fill frame it sends
Matched(x, id, c) ==
    LET o    == x.orders[id]
        pos  == IF o.action = "buy" THEN x.position + c ELSE x.position - c
        left == o.remaining - c
    IN  [exchange |->
            [x EXCEPT !.position = pos,
                      !.orders = IF left = 0 THEN MapDel(@, id)
                                 ELSE MapSet(@, id, [o EXCEPT !.remaining = left])],
         fill |-> [order_id |-> id, count |-> c, post_position |-> pos, ts |-> 1]]

\* GET /portfolio/orders
OrdersResponse(x) ==
    [kind |-> "orders",
     orders |-> [id \in Keys(x.orders) |->
                    [status |-> "resting",
                     remaining_count |-> x.orders[id].remaining]]]

\* GET /portfolio/positions; an exchange may leave a flat position out
PositionsResponse(x, listed) ==
    [kind |-> "positions",
     market_positions |-> IF listed THEN <<x.position>> ELSE <<>>]

\* DELETE /portfolio/orders/batched: resting ids are cancelled, the others
\* are answered with an error
CancelResponse(x, ids) ==
    [kind |-> "cancel",
     orders |-> [id \in ids |-> [error |-> id \notin Keys(x.orders)]]]

Cancelled(x, ids) ==
    [x EXCEPT !.orders = [id \in Keys(@) \ ids |-> @[id]]]

ErrorResponse == [kind |-> "error"]
NoResponse == [kind |-> "none"]

-----------------------------------------------------------------------------
(* Tasks of the event loop.  A task is suspended only at a REST call; the   *)
(* request reaches the exchange (or not) when it is sent and the task       *)
(* resumes later with the response.  "deadlock": the task awaits            *)
(* reconcile(), hence the execution lock, while holding that lock itself.   *)

Tasks == {"tick", "runner"}

\* hist: the latest _place_batch_order (place: none, sent, or how it
\* completed: ok, rejected, error), the order it sent, the fills handled
\* during its round trip and the response it registered; placed_ever: some
\* _place_batch_order has completed; fill_raised: the fill handled last left
\* on_fill with PositionLimitExceeded

NoPlacement ==
    [place |-> "none", placed_count |-> 0, placed_action |-> "none",
     during |-> <<>>, response |-> NoResponse]

HistInit ==
    [place |-> "none", placed_count |-> 0, placed_action |-> "none",
     during |-> <<>>, response |-> NoResponse,
     placed_ever |-> FALSE, fill_raised |-> FALSE]

\* the record of a completed placement is dropped at the next step
Settle(h) ==
    IF h.place \in {"ok", "error", "rejected"}
    THEN [h EXCEPT !.place = "none", !.placed_count = 0, !.placed_action = "none",
                   !.during = <<>>, !.response = NoResponse]
    ELSE h

\* a request either is lost, or reaches the exchange and its response is
\* delivered or lost
Outcome(reached, delivered, response) ==
    IF reached /\ delivered THEN response ELSE ErrorResponse

ORDER_SIZE == 10

\* OptionsExecutor.on_tick_action from the lock to the batch-cancel request
TickStart ==
    /\ pc["tick"] = "idle" /\ lock = "free"
    /\ lock' = "tick"
    /\ IF Keys(executor.resting_orders) # {}
       THEN \E reached \in BOOLEAN, delivered \in BOOLEAN :
              LET ids == Keys(executor.resting_orders) IN
              /\ exchange' = IF reached THEN Cancelled(exchange, ids) ELSE exchange
              /\ resp' = [resp EXCEPT !["tick"] =
                            Outcome(reached, delivered, CancelResponse(exchange, ids))]
              /\ pc' = [pc EXCEPT !["tick"] = "cancel_sent"]
       ELSE /\ pc' = [pc EXCEPT !["tick"] = "decide"]
            /\ UNCHANGED <<exchange, resp>>
    /\ hist' = Settle(hist)
    /\ UNCHANGED <<executor, fill_queue, feedVars, auxVars>>

\* _cancel_outstanding_orders resumes with the batch-cancel response
TickCancelled ==
    /\ pc["tick"] = "cancel_sent"
    /\ hist' = Settle(hist)
    /\ IF resp["tick"].kind = "error"
       THEN /\ pc' = [pc EXCEPT !["tick"] = "deadlock"]
            /\ resp' = [resp EXCEPT !["tick"] = NoResponse]
            /\ UNCHANGED executor
       ELSE LET e1 == CancelAcknowledged(executor, resp["tick"]) IN
            /\ executor' = e1
            /\ IF Keys(e1.resting_orders) # {}
               THEN \E delivered \in BOOLEAN :
                      /\ resp' = [resp EXCEPT !["tick"] =
                                    Outcome(TRUE, delivered, OrdersResponse(exchange))]
                      /\ pc' = [pc EXCEPT !["tick"] = "cancel_sync_sent"]
               ELSE /\ resp' = [resp EXCEPT !["tick"] = NoResponse]
                    /\ pc' = [pc EXCEPT !["tick"] = "decide"]
    /\ UNCHANGED <<lock, exchange, fill_queue, feedVars, auxVars>>

\* the _sync_orders of _cancel_outstanding_orders resumes
TickCancelSynced ==
    /\ pc["tick"] = "cancel_sync_sent"
    /\ hist' = Settle(hist)
    /\ resp' = [resp EXCEPT !["tick"] = NoResponse]
    /\ IF resp["tick"].kind = "error"
       THEN /\ pc' = [pc EXCEPT !["tick"] = "deadlock"]
            /\ UNCHANGED executor
       ELSE /\ executor' = _sync_orders(executor, resp["tick"])
            /\ pc' = [pc EXCEPT !["tick"] = "decide"]
    /\ UNCHANGED <<lock, exchange, fill_queue, feedVars, auxVars>>

\* on_tick_action finds no order to place (no tick, no edge, no capacity, or
\* the pricing raises) and leaves the lock
TickNoOrder ==
    /\ pc["tick"] = "decide"
    /\ pc' = [pc EXCEPT !["tick"] = "idle"]
    /\ lock' = "free"
    /\ hist' = Settle(hist)
    /\ UNCHANGED <<executor, resp, exchange, fill_queue, feedVars, auxVars>>

\* on_tick_action decides on an order and _place_batch_order sends it:
\* the exchange rejects it, or accepts it and matches taken contracts of it
\* at once
TickPlace(action, taken, reached, accepted, delivered) ==
    LET space  == IF action = "buy"
                  THEN Max(0, executor.max_inventory - executor.inventory)
                  ELSE Max(0, executor.inventory + executor.max_inventory)
        count  == Min(ORDER_SIZE, space)
        e1     == [executor EXCEPT !.unregistered_fills = EmptyMap]
        order  == constrain_order(e1, [side |-> "yes", action |-> action,
                                       count |-> count])
        id     == exchange.next_id
        x1     == [exchange EXCEPT
                      !.next_id = id + 1,
                      !.orders = MapSet(@, id, [remaining |-> order.count,
                                                action |-> action])]
        m      == Matched(x1, id, taken)
        x2     == IF taken > 0 THEN m.exchange ELSE x1
        placed == [kind |-> "placed", order_id |-> id,
                   remaining_count |-> order.count - taken]
    IN  /\ pc["tick"] = "decide"
        /\ count > 0
        /\ taken <= order.count
        /\ exchange.next_id <= MaxOrders
        /\ (taken > 0 => Len(fill_queue) < MaxPending)
        /\ executor' = e1
        /\ exchange' = IF reached /\ accepted THEN x2 ELSE exchange
        /\ fill_queue' = IF reached /\ accepted /\ taken > 0
                         THEN Append(fill_queue, m.fill) ELSE fill_queue
        /\ resp' = [resp EXCEPT !["tick"] =
                      IF reached /\ ~accepted /\ delivered
                      THEN [kind |-> "rejected"]
                      ELSE Outcome(reached, delivered, placed)]
        /\ pc' = [pc EXCEPT !["tick"] = "place_sent"]
        /\ hist' = [Settle(hist) EXCEPT !.place = "sent",
                                        !.placed_count = order.count,
                                        !.placed_action = action]
        /\ UNCHANGED <<lock, feedVars, auxVars>>

\* _place_batch_order resumes with the batch-create response.  KalshiAPI
\* .batch_create_orders only logs an order's error, so a rejection comes back
\* as a response whose order carries no id and no remaining_count: nothing
\* is registered, as after an exception of the call
TickPlaced ==
    /\ pc["tick"] = "place_sent"
    /\ resp' = [resp EXCEPT !["tick"] = NoResponse]
    /\ IF resp["tick"].kind = "placed"
       THEN /\ executor' = PlacementRegistered(executor, resp["tick"])
            /\ pc' = [pc EXCEPT !["tick"] = "idle"]
            /\ lock' = "free"
            /\ hist' = [hist EXCEPT !.place = "ok", !.placed_ever = TRUE,
                                    !.response = resp["tick"]]
       ELSE /\ pc' = [pc EXCEPT !["tick"] = "idle"]
            /\ lock' = "free"
            /\ hist' = [hist EXCEPT !.place = resp["tick"].kind,
                                    !.placed_ever = TRUE]
            /\ UNCHANGED executor
    /\ UNCHANGED <<exchange, fill_queue, feedVars, auxVars>>

\* Executor.reconcile, called by the runner: the lock and the orders request
ReconcileStart ==
    /\ pc["runner"] = "idle" /\ lock = "free"
    /\ lock' = "runner"
    /\ \E delivered \in BOOLEAN :
          resp' = [resp EXCEPT !["runner"] =
                      Outcome(TRUE, delivered, OrdersResponse(exchange))]
    /\ pc' = [pc EXCEPT !["runner"] = "orders_sent"]
    /\ hist' = Settle(hist)
    /\ UNCHANGED <<executor, exchange, fill_queue, feedVars, auxVars>>

\* reconcile resumes in _sync_orders and goes on to the balance request
ReconcileOrders(balance) ==
    /\ pc["runner"] = "orders_sent"
    /\ hist' = Settle(hist)
    /\ IF resp["runner"].kind = "error"
       THEN /\ pc' = [pc EXCEPT !["runner"] = "failed"]
            /\ lock' = "free"
            /\ resp' = [resp EXCEPT !["runner"] = NoResponse]
            /\ UNCHANGED executor
       ELSE /\ executor' = _sync_orders(executor, resp["runner"])
            /\ \E delivered \in BOOLEAN :
                  resp' = [resp EXCEPT !["runner"] =
                      Outcome(TRUE, delivered,
                              [kind |-> "balance", balance |-> balance])]
            /\ pc' = [pc EXCEPT !["runner"] = "balance_sent"]
            /\ UNCHANGED lock
    /\ UNCHANGED <<exchange, fill_queue, feedVars, auxVars>>

\* reconcile resumes in _sync_balance and goes on to the positions request
ReconcileBalance ==
    /\ pc["runner"] = "balance_sent"
    /\ hist' = Settle(hist)
    /\ IF resp["runner"].kind = "error"
       THEN /\ pc' = [pc EXCEPT !["runner"] = "failed"]
            /\ lock' = "free"
            /\ resp' = [resp EXCEPT !["runner"] = NoResponse]
            /\ UNCHANGED executor
       ELSE LET r == _sync_balance(executor, resp["runner"]) IN
            /\ executor' = r.e
            /\ IF r.raised
               THEN /\ pc' = [pc EXCEPT !["runner"] = "risk_exceeded"]
                    /\ lock' = "free"
                    /\ resp' = [resp EXCEPT !["runner"] = NoResponse]
               ELSE /\ \E delivered \in BOOLEAN, listed \in BOOLEAN :
                          /\ (exchange.position # 0 => listed)
                          /\ resp' = [resp EXCEPT !["runner"] =
                                 Outcome(TRUE, delivered,
                                         PositionsResponse(exchange, listed))]
                    /\ pc' = [pc EXCEPT !["runner"] = "positions_sent"]
                    /\ UNCHANGED lock
    /\ UNCHANGED <<exchange, fill_queue, feedVars, auxVars>>

\* reconcile resumes in _sync_inventory and leaves the lock
ReconcileInventory ==
    /\ pc["runner"] = "positions_sent"
    /\ hist' = Settle(hist)
    /\ lock' = "free"
    /\ resp' = [resp EXCEPT !["runner"] = NoResponse]
    /\ IF resp["runner"].kind = "error"
       THEN /\ pc' = [pc EXCEPT !["runner"] = "failed"]
            /\ UNCHANGED executor
       ELSE LET r == _sync_inventory(executor, resp["runner"]) IN
            /\ executor' = r.e
            /\ pc' = [pc EXCEPT !["runner"] =
                            IF r.raised THEN "risk_exceeded" ELSE "idle"]
    /\ UNCHANGED <<exchange, fill_queue, feedVars, auxVars>>

\* KalshiWebsocket.handle_msg on a valid fill frame: OptionsExecutor.on_fill
HandleFill ==
    /\ fill_queue # <<>>
    /\ LET r == update_inv_on_fill(executor, Head(fill_queue)) IN
         /\ executor' = r.e
         /\ hist' = [Settle(hist) EXCEPT
                        !.fill_raised = r.raised,
                        !.during = IF hist.place = "sent"
                                   THEN Append(@, Head(fill_queue)) ELSE @]
    /\ fill_queue' = Tail(fill_queue)
    /\ UNCHANGED <<lock, pc, resp, exchange, feedVars, auxVars>>

\* the exchange matches c contracts of a resting order
ExchangeFill(id, c) ==
    /\ id \in Keys(exchange.orders)
    /\ c <= exchange.orders[id].remaining
    /\ Len(fill_queue) < MaxPending
    /\ exchange' = Matched(exchange, id, c).exchange
    /\ fill_queue' = Append(fill_queue, Matched(exchange, id, c).fill)
    /\ hist' = Settle(hist)
    /\ UNCHANGED <<executor, lock, pc, resp, feedVars, auxVars>>

-----------------------------------------------------------------------------
(* SpecBook: the order-book feed of one subscribed ticker.  It starts after *)
(* the runner's init_and_connect and the first "subscribed" acknowledgement *)
(* (subscribe ids 1 and 2 are spent, the ticker has sid 1).                 *)

YesWire == {30000, 30005, 60000}    \* 0.30000, 0.30005, 0.60000 dollars
NoWire  == {30010, 60000}           \* 0.30010, 0.60000 dollars
WirePrices(side) == IF side = "yes" THEN YesWire ELSE NoWire
Deltas  == (-MaxCount)..MaxCount
BookTs  == {1}
SnapYes == { <<>>, << <<30000, 1>> >>, << <<30000, 1>>, <<30005, 1>> >>,
             << <<60000, 2>>, <<30000, 1>> >> }
SnapNo  == { <<>>, << <<30010, 2>> >>, << <<60000, 1>>, <<30010, 1>> >> }

\* the level a delta would leave stays within the model's count bound
WithinCount(side, wire, delta) ==
    LET book == IF side = "yes" THEN orderbook.yes_book ELSE orderbook.no_book
    IN  MapGet(book, FixedPointDollars(wire), 0) + delta <= MaxCount

SubscribedWs ==
    [message_id |-> 3, ticker_to_sid |-> MapSet(EmptyMap, Ticker, 1),
     sid_to_ticker |-> MapSet(EmptyMap, 1, Ticker),
     pending_requests |-> EmptyMap, pending_snapshot |-> FALSE]

\* last_frame: type and seq of the frame handled last, the book's seq_n
\* before it, what handle_msg did with it, gap_open: BinaryMarket.update
\* has rejected a delta for a gap and no snapshot has been applied since,
\* on_gap: the arguments of the on_gap_callback calls BinaryMarket.update
\* made for the frame, on_update: it called post_update_action, sent: the
\* frames the socket sent while the frame was handled
NoFrame == [type |-> "none", seq |-> 0, prev_seq |-> None, outcome |-> "none",
            gap_open |-> FALSE, on_gap |-> <<>>, on_update |-> FALSE,
            sent |-> <<>>]

MAX_INVENTORY == 10
MINIMUM_BALANCE == 1

\* the feed and the executor as the runner has constructed and subscribed
\* them
FeedInit ==
    /\ orderbook = OrderBookInit
    /\ volatility_window = 1
    /\ price_window = PriceBufferInit(volatility_window)
    /\ volatility = None
    /\ ws = SubscribedWs
    /\ last_frame = NoFrame

ExecInit ==
    /\ executor = ExecutorInit(MAX_INVENTORY, MINIMUM_BALANCE)
    /\ lock = "free"
    /\ pc = [t \in Tasks |-> "idle"]
    /\ resp = [t \in Tasks |-> NoResponse]
    /\ exchange = ExchangeInit
    /\ fill_queue = <<>>
    /\ hist = HistInit

\* the runner is in its poll loop, the socket is connected, nothing has
\* been called.  quiet: the time since the order-book frame handled last
\* exceeds maximum_orderbook_staleness
SessionInit ==
    [running |-> TRUE, tasks |-> "running", clock |-> "early",
     close_calls |-> 0, close_reason |-> "none", close_reported |-> None,
     close_orders |-> <<>>, risk_raised |-> FALSE, stopped |-> FALSE,
     shutdown_signal |-> FALSE, quiet |-> FALSE]

\* KalshiWebsocket as constructed: no socket, run() not started.  sock is
\* the state of self.ws, pc the position of the runner and of run(),
\* opened counts the connections established, closed_with holds the tickers
\* of ticker_to_sid when the exchange closed the socket last, restored the
\* tickers _restore_subs has subscribed since, last_error the code of the
\* error frame handled last
LinkInit ==
    [sock |-> "none", is_running |-> FALSE, pc |-> "init", retries |-> 0,
     opened |-> 0, close_kind |-> "none", closed_with |-> {},
     restored |-> {}, last_error |-> None]

\* run() is iterating over the connected socket
LinkListening ==
    [LinkInit EXCEPT !.sock = "open", !.is_running = TRUE,
                     !.pc = "listening", !.opened = 1]

NoCall == [fn |-> "none"]

\* an executor as constructed: the event clear, no processor task created.
\* task is the task the executor refers to (_tick_processor_task or
\* _update_processor_task), tasks the state of every task created
ProcessorInit == [event |-> FALSE, task |-> None, tasks |-> <<>>]

Executors == {"options", "market_making"}

AuxInit ==
    /\ session = SessionInit
    /\ link = LinkListening
    /\ call = NoCall
    /\ proc = [e \in Executors |-> ProcessorInit]

InitBook == FeedInit /\ ExecInit /\ AuxInit

SnapshotFrame ==
    /\ \E seq \in 1..MaxSeq, y \in SnapYes, n \in SnapNo :
          HandleSnapshot(seq, [yes_dollars |-> y, no_dollars |-> n])
    /\ UNCHANGED <<execVars, auxVars>>

DeltaFrame ==
    /\ \E seq \in 1..MaxSeq, side \in {"yes", "no"}, d \in Deltas, ts \in BookTs :
          \E wire \in WirePrices(side) :
              /\ WithinCount(side, wire, d)
              /\ HandleDelta(seq, [side |-> side, price_dollars |-> wire,
                                   delta |-> d, ts |-> ts])
    /\ UNCHANGED <<execVars, auxVars>>

InvalidBookFrame ==
    /\ \E sent1 \in BOOLEAN, sent2 \in BOOLEAN :
          HandleInvalidBookFrame(sent1, sent2)
    /\ UNCHANGED <<execVars, auxVars>>

NextBook == SnapshotFrame \/ DeltaFrame \/ InvalidBookFrame

SpecBook == InitBook /\ [][NextBook]_vars

-----------------------------------------------------------------------------
(* SpecExec: the executor of one market between the runner's first         *)
(* reconcile and its shutdown: the tick task, the runner's periodic         *)
(* reconcile, the websocket task handling fills, and the exchange.          *)

Taken == {0, 4}                   \* contracts matched as an order is accepted
FillSizes == {6}                  \* contracts matched of a resting order
Balances == {50, 500}             \* balance responses, in cents

InitExec == FeedInit /\ ExecInit /\ AuxInit

PlaceOrder ==
    \E action \in {"buy", "sell"}, taken \in Taken,
       reached \in BOOLEAN, accepted \in BOOLEAN, delivered \in BOOLEAN :
        TickPlace(action, taken, reached, accepted, delivered)

ReconcileOrdersStep == \E balance \in Balances : ReconcileOrders(balance)

ExchangeFillStep ==
    \E id \in 1..MaxOrders, c \in FillSizes : ExchangeFill(id, c)

NextExec ==
    \/ TickStart
    \/ TickCancelled
    \/ TickCancelSynced
    \/ TickNoOrder
    \/ PlaceOrder
    \/ TickPlaced
    \/ ReconcileStart
    \/ ReconcileOrdersStep
    \/ ReconcileBalance
    \/ ReconcileInventory
    \/ HandleFill
    \/ ExchangeFillStep

SpecExec == InitExec /\ [][NextExec]_vars

-----------------------------------------------------------------------------
(* Claims about the order-book feed (checked under SpecBook) *)

BookChanged == orderbook' # orderbook

\* C1: once BinaryMarket.update has rejected a delta for a sequence gap, no
\* orderbook_delta frame of any seq changes the order book until an
\* orderbook_snapshot has been applied: while gap_open, the only step that
\* changes the book is the handling of a snapshot.
C1_GapSuppressesDeltas ==
    [][ last_frame.gap_open /\ BookChanged
            => last_frame'.type = "orderbook_snapshot" ]_vars

\* a delta contiguous with the book's seq was dropped after a gap
C1_Witness ==
    /\ last_frame.gap_open
    /\ last_frame.type = "orderbook_delta"
    /\ last_frame.outcome = "dropped"
    /\ orderbook.seq_n # None
    /\ last_frame.seq = Val(orderbook.seq_n) + 1

\* C2: every applied envelope leaves seq_n equal to its seq, and a delta
\* applied while seq_n was set had seq = previous seq_n + 1.
C2_SeqFollowsEnvelopes ==
    last_frame.outcome = "applied" =>
        /\ orderbook.seq_n = Some(last_frame.seq)
        /\ (last_frame.type = "orderbook_delta" /\ last_frame.prev_seq # None
                => last_frame.seq = Val(last_frame.prev_seq) + 1)

\* a delta was applied on top of a book whose seq was set
C2_Witness ==
    /\ last_frame.outcome = "applied"
    /\ last_frame.type = "orderbook_delta"
    /\ last_frame.prev_seq # None

\* C3: a non-empty YES side has best_bid = its highest key and bid_size =
\* the count stored there.
C3_BestBidIsMaxYes ==
    Keys(orderbook.yes_book) # {} =>
        /\ orderbook.best_bid = MaxKey(orderbook.yes_book)
        /\ orderbook.bid_size = orderbook.yes_book[orderbook.best_bid]

\* a delta removed the best YES level and a lower level became the best bid
C3_Witness ==
    /\ last_frame.type = "orderbook_delta" /\ last_frame.outcome = "applied"
    /\ Keys(orderbook.yes_book) = {3000}
    /\ orderbook.best_bid = 3000
    /\ orderbook.timestamp # None
    /\ last_frame.prev_seq # None

\* C4: a non-empty NO side has best_ask.complement = its highest key and
\* ask_size = the count stored at that NO level.
C4_BestAskIsMaxNo ==
    Keys(orderbook.no_book) # {} =>
        /\ complement(orderbook.best_ask) = MaxKey(orderbook.no_book)
        /\ orderbook.ask_size = orderbook.no_book[MaxKey(orderbook.no_book)]

\* a delta left the NO side with the single level 0.3001 (ask 0.6999)
C4_Witness ==
    /\ last_frame.type = "orderbook_delta" /\ last_frame.outcome = "applied"
    /\ Keys(orderbook.no_book) = {3001}
    /\ orderbook.best_ask = 6999
    /\ last_frame.prev_seq # None

BothSides == Keys(orderbook.yes_book) # {} /\ Keys(orderbook.no_book) # {}

\* C5 as stated: with both sides non-empty best_bid <= mid_price <= best_ask,
\* and bid_ask_spread >= 0 in every state.
C5_MidBetweenAndSpreadNonNeg ==
    /\ BothSides => /\ orderbook.best_bid <= orderbook.mid_price
                    /\ orderbook.mid_price <= orderbook.best_ask
    /\ orderbook.bid_ask_spread >= 0

\* C5 amended: the book copies the feed, so both bounds hold for the books
\* that are not crossed (best_bid <= best_ask).
C5_Uncrossed ==
    orderbook.best_bid <= orderbook.best_ask =>
        /\ orderbook.bid_ask_spread >= 0
        /\ BothSides => /\ orderbook.best_bid <= orderbook.mid_price
                        /\ orderbook.mid_price <= orderbook.best_ask

\* bid 0.3000 and ask 0.6999: the mid 0.49995 is rounded down to 0.4999
C5_Witness ==
    /\ BothSides
    /\ orderbook.best_bid = 3000 /\ orderbook.best_ask = 6999
    /\ orderbook.mid_price = 4999

\* C6: an empty YES side has best_bid = 0 and bid_size = 0; an empty NO side
\* has best_ask = 1 and ask_size = 0.
C6_EmptySidesCollapse ==
    /\ Keys(orderbook.yes_book) = {}
          => orderbook.best_bid = ZERO /\ orderbook.bid_size = 0
    /\ Keys(orderbook.no_book) = {}
          => orderbook.best_ask = ONE /\ orderbook.ask_size = 0

\* a delta on a book with a set seq left the YES side empty, the NO side not
C6_Witness ==
    /\ last_frame.type = "orderbook_delta" /\ last_frame.outcome = "applied"
    /\ last_frame.prev_seq # None
    /\ Keys(orderbook.yes_book) = {}
    /\ Keys(orderbook.no_book) # {}

-----------------------------------------------------------------------------
(* Claims about the executor (checked under SpecExec) *)

\* C7: whenever on_fill handles a fill frame, in any executor state and
\* whether or not it raises PositionLimitExceeded, inventory afterwards
\* equals the frame's post_position.
C7_InventoryIsPostPosition ==
    [][ fill_queue # <<>> /\ fill_queue' = Tail(fill_queue)
            => executor'.inventory = Head(fill_queue).post_position ]_vars

\* a fill took the position past max_inventory: on_fill raised and inventory
\* is the position reported
C7_Witness ==
    /\ hist.fill_raised
    /\ executor.last_fill_ts # None
    /\ executor.inventory = exchange.position
    /\ Abs(executor.inventory) > executor.max_inventory

\* C8: once a _place_batch_order has completed (registered, rejected or
\* failed), with fills handled before, during and after its round trip, no
\* order id is a key of both resting_orders and unregistered_fills.
C8_MapsDisjoint ==
    hist.placed_ever =>
        Keys(executor.resting_orders) \cap Keys(executor.unregistered_fills) = {}

\* a placement completed whose order had a fill handled before the response:
\* the id left unregistered_fills and entered resting_orders
C8_Witness ==
    /\ hist.place = "ok"
    /\ Len(hist.during) = 1
    /\ hist.during[1].order_id = hist.response.order_id
    /\ hist.response.order_id \in Keys(executor.resting_orders)
    /\ hist.response.order_id \notin Keys(executor.unregistered_fills)

\* C9: a buy of 10 is placed; before its response is processed on_fill
\* handles a fill of its order o1 with count 4 and post_position 4; the
\* response reports o1 with remaining_count 6.  Then after the placement
\* resting_orders = {o1: 6}, unregistered_fills is empty and inventory = 4.
C9_PlacementRace ==
    (/\ hist.place = "ok"
     /\ hist.placed_action = "buy" /\ hist.placed_count = 10
     /\ Len(hist.during) = 1
     /\ hist.during[1].order_id = hist.response.order_id
     /\ hist.during[1].count = 4 /\ hist.during[1].post_position = 4
     /\ hist.response.remaining_count = 6)
        => /\ executor.resting_orders = MapSet(EmptyMap, hist.response.order_id, 6)
           /\ executor.unregistered_fills = EmptyMap
           /\ executor.inventory = 4

\* C10: whenever no operation holds the execution lock, every order resting
\* on the exchange has its id in resting_orders or in unregistered_fills.
C10_PortfolioInvariant ==
    lock = "free" =>
        \A id \in Keys(exchange.orders) :
            id \in Keys(executor.resting_orders)
                      \cup Keys(executor.unregistered_fills)

-----------------------------------------------------------------------------
(* TradingSessionRunner.start (live_trading/runner/session_runner.py): the  *)
(* poll loop of the runner, Executor._close_position and stop().  The       *)
(* runner is pc["runner"]; "idle" is the top of a poll cycle.  An exception *)
(* that leaves start() ends the runner ("crashed"); run.main then calls     *)
(* stop() because _running is still set.                                    *)

\* stop() up to its first await: _running is unset and every other task is
\* cancelled; a cancelled task leaves its `async with` and frees the lock
Stopping(ss) == [ss EXCEPT !.running = FALSE, !.tasks = "cancelled"]
CancelledTasks == [pc EXCEPT !["tick"] = "cancelled", !["runner"] = "stopping"]
LockAfterCancel(l) == IF l = "tick" THEN "free" ELSE l

\* the exchange executes a market order at once and reports the fill
MarketFilled(x, order) ==
    LET pos == IF order.side = "yes" THEN x.position - order.count
               ELSE x.position + order.count
    IN  [exchange |-> [x EXCEPT !.position = pos],
         fill |-> [order_id |-> 0, count |-> order.count,
                   post_position |-> pos, ts |-> 1]]

\* line 135: await self.executor._sync_balance(), outside the lock
PollBalance(balance, delivered) ==
    /\ pc["runner"] = "idle"
    /\ resp' = [resp EXCEPT !["runner"] =
                  Outcome(TRUE, delivered, [kind |-> "balance", balance |-> balance])]
    /\ pc' = [pc EXCEPT !["runner"] = "poll_balance_sent"]
    /\ hist' = Settle(hist)
    /\ UNCHANGED <<executor, lock, exchange, fill_queue, feedVars, auxVars>>

\* _sync_balance resumes; BalanceLimitExceeded and API errors leave start()
PollBalanced ==
    /\ pc["runner"] = "poll_balance_sent"
    /\ resp' = [resp EXCEPT !["runner"] = NoResponse]
    /\ hist' = Settle(hist)
    /\ IF resp["runner"].kind = "error"
       THEN /\ pc' = [pc EXCEPT !["runner"] = "crashed"]
            /\ UNCHANGED <<executor, session>>
       ELSE LET r == _sync_balance(executor, resp["runner"]) IN
            /\ executor' = r.e
            /\ pc' = [pc EXCEPT !["runner"] =
                         IF r.raised THEN "crashed" ELSE "checks"]
            /\ session' = [session EXCEPT !.risk_raised = @ \/ r.raised]
    /\ UNCHANGED <<lock, exchange, fill_queue, feedVars, link, call, proc>>

\* lines 137-166: the terminal-time check, the reconciliation period, the
\* staleness check and `tasks = pending`
PollChecks(terminal, due, stale) ==
    /\ pc["runner"] = "checks"
    /\ (session.clock = "terminal" => terminal)
    /\ hist' = Settle(hist)
    /\ IF terminal
       THEN /\ session' = [session EXCEPT !.clock = "terminal",
                              !.close_calls = @ + 1, !.close_reason = "terminal"]
            /\ pc' = [pc EXCEPT !["runner"] = "close_invoked"]
       ELSE IF due
       THEN /\ pc' = [pc EXCEPT !["runner"] = "reconcile_invoked"]
            /\ UNCHANGED session
       ELSE IF orderbook.timestamp # None /\ stale
       THEN /\ session' = [session EXCEPT !.close_calls = @ + 1,
                                          !.close_reason = "stale"]
            /\ pc' = [pc EXCEPT !["runner"] = "close_invoked"]
       ELSE /\ pc' = [pc EXCEPT !["runner"] = "idle"]
            /\ UNCHANGED session
    /\ UNCHANGED <<executor, lock, resp, exchange, fill_queue, feedVars, link, call, proc>>

\* the periodic reconcile (lines 145-157): lock and orders request
PeriodicStart(delivered) ==
    /\ pc["runner"] = "reconcile_invoked" /\ lock = "free"
    /\ lock' = "runner"
    /\ resp' = [resp EXCEPT !["runner"] =
                  Outcome(TRUE, delivered, OrdersResponse(exchange))]
    /\ pc' = [pc EXCEPT !["runner"] = "rec_orders_sent"]
    /\ hist' = Settle(hist)
    /\ UNCHANGED <<executor, exchange, fill_queue, feedVars, auxVars>>

PeriodicOrders(balance, delivered) ==
    /\ pc["runner"] = "rec_orders_sent"
    /\ hist' = Settle(hist)
    /\ IF resp["runner"].kind = "error"
       THEN /\ pc' = [pc EXCEPT !["runner"] = "crashed"]
            /\ lock' = "free"
            /\ resp' = [resp EXCEPT !["runner"] = NoResponse]
            /\ UNCHANGED executor
       ELSE /\ executor' = _sync_orders(executor, resp["runner"])
            /\ resp' = [resp EXCEPT !["runner"] =
                  Outcome(TRUE, delivered, [kind |-> "balance", balance |-> balance])]
            /\ pc' = [pc EXCEPT !["runner"] = "rec_balance_sent"]
            /\ UNCHANGED lock
    /\ UNCHANGED <<exchange, fill_queue, feedVars, auxVars>>

\* a RiskLimitExceeded of reconcile is caught at line 150: close_position
PeriodicBalance(delivered, listed) ==
    /\ pc["runner"] = "rec_balance_sent"
    /\ (exchange.position # 0 => listed)
    /\ hist' = Settle(hist)
    /\ IF resp["runner"].kind = "error"
       THEN /\ pc' = [pc EXCEPT !["runner"] = "crashed"]
            /\ lock' = "free"
            /\ resp' = [resp EXCEPT !["runner"] = NoResponse]
            /\ UNCHANGED <<executor, session>>
       ELSE LET r == _sync_balance(executor, resp["runner"]) IN
            /\ executor' = r.e
            /\ IF r.raised
               THEN /\ pc' = [pc EXCEPT !["runner"] = "close_invoked"]
                    /\ lock' = "free"
                    /\ resp' = [resp EXCEPT !["runner"] = NoResponse]
                    /\ session' = [session EXCEPT !.risk_raised = TRUE,
                                      !.close_calls = @ + 1, !.close_reason = "risk"]
               ELSE /\ resp' = [resp EXCEPT !["runner"] =
                          Outcome(TRUE, delivered, PositionsResponse(exchange, listed))]
                    /\ pc' = [pc EXCEPT !["runner"] = "rec_positions_sent"]
                    /\ UNCHANGED <<lock, session>>
    /\ UNCHANGED <<exchange, fill_queue, feedVars, link, call, proc>>

PeriodicInventory(stale) ==
    /\ pc["runner"] = "rec_positions_sent"
    /\ hist' = Settle(hist)
    /\ lock' = "free"
    /\ resp' = [resp EXCEPT !["runner"] = NoResponse]
    /\ IF resp["runner"].kind = "error"
       THEN /\ pc' = [pc EXCEPT !["runner"] = "crashed"]
            /\ UNCHANGED <<executor, session>>
       ELSE LET r == _sync_inventory(executor, resp["runner"]) IN
            /\ executor' = r.e
            /\ IF r.raised
               THEN /\ pc' = [pc EXCEPT !["runner"] = "close_invoked"]
                    /\ session' = [session EXCEPT !.risk_raised = TRUE,
                                      !.close_calls = @ + 1, !.close_reason = "risk"]
               ELSE IF orderbook.timestamp # None /\ stale
               THEN /\ pc' = [pc EXCEPT !["runner"] = "close_invoked"]
                    /\ session' = [session EXCEPT !.close_calls = @ + 1,
                                                  !.close_reason = "stale"]
               ELSE /\ pc' = [pc EXCEPT !["runner"] = "idle"]
                    /\ UNCHANGED session
    /\ UNCHANGED <<exchange, fill_queue, feedVars, link, call, proc>>

\* Executor._close_position: the lock and the get_orders of _sync_orders
CloseStart(delivered) ==
    /\ pc["runner"] = "close_invoked" /\ lock = "free"
    /\ lock' = "runner"
    /\ resp' = [resp EXCEPT !["runner"] =
                  Outcome(TRUE, delivered, OrdersResponse(exchange))]
    /\ pc' = [pc EXCEPT !["runner"] = "close_orders_sent"]
    /\ hist' = Settle(hist)
    /\ UNCHANGED <<executor, exchange, fill_queue, feedVars, auxVars>>

\* the request that follows the cancelling in _close_position: get_positions
ClosePositionsSent(p, delivered, listed) ==
    /\ (exchange.position # 0 => listed)
    /\ resp' = [resp EXCEPT !["runner"] =
                  Outcome(TRUE, delivered, PositionsResponse(exchange, listed))]
    /\ pc' = [p EXCEPT !["runner"] = "close_positions_sent"]

\* _sync_orders resumes, then _cancel_outstanding_orders sends the batch
\* cancel of what rests
CloseOrders(reached, delivered, listed) ==
    /\ pc["runner"] = "close_orders_sent"
    /\ hist' = Settle(hist)
    /\ IF resp["runner"].kind = "error"
       THEN /\ pc' = [pc EXCEPT !["runner"] = "crashed"]
            /\ lock' = "free"
            /\ resp' = [resp EXCEPT !["runner"] = NoResponse]
            /\ UNCHANGED <<executor, exchange>>
       ELSE LET e1  == _sync_orders(executor, resp["runner"])
                ids == Keys(e1.resting_orders)
            IN  /\ executor' = e1
                /\ UNCHANGED lock
                /\ IF ids # {}
                   THEN /\ exchange' = IF reached THEN Cancelled(exchange, ids)
                                       ELSE exchange
                        /\ resp' = [resp EXCEPT !["runner"] =
                              Outcome(reached, delivered, CancelResponse(exchange, ids))]
                        /\ pc' = [pc EXCEPT !["runner"] = "close_cancel_sent"]
                   ELSE /\ ClosePositionsSent(pc, delivered, listed)
                        /\ UNCHANGED exchange
    /\ UNCHANGED <<fill_queue, feedVars, auxVars>>

\* _cancel_outstanding_orders resumes inside _close_position; on an error it
\* awaits reconcile(), that is the lock this task holds
CloseCancelled(delivered, listed) ==
    /\ pc["runner"] = "close_cancel_sent"
    /\ hist' = Settle(hist)
    /\ IF resp["runner"].kind = "error"
       THEN /\ pc' = [pc EXCEPT !["runner"] = "deadlock"]
            /\ resp' = [resp EXCEPT !["runner"] = NoResponse]
            /\ UNCHANGED executor
       ELSE LET e1 == CancelAcknowledged(executor, resp["runner"]) IN
            /\ executor' = e1
            /\ IF Keys(e1.resting_orders) # {}
               THEN /\ resp' = [resp EXCEPT !["runner"] =
                          Outcome(TRUE, delivered, OrdersResponse(exchange))]
                    /\ pc' = [pc EXCEPT !["runner"] = "close_cancel_sync_sent"]
               ELSE ClosePositionsSent(pc, delivered, listed)
    /\ UNCHANGED <<lock, exchange, fill_queue, feedVars, auxVars>>

CloseCancelSynced(delivered, listed) ==
    /\ pc["runner"] = "close_cancel_sync_sent"
    /\ hist' = Settle(hist)
    /\ IF resp["runner"].kind = "error"
       THEN /\ pc' = [pc EXCEPT !["runner"] = "deadlock"]
            /\ resp' = [resp EXCEPT !["runner"] = NoResponse]
            /\ UNCHANGED executor
       ELSE /\ executor' = _sync_orders(executor, resp["runner"])
            /\ ClosePositionsSent(pc, delivered, listed)
    /\ UNCHANGED <<lock, exchange, fill_queue, feedVars, auxVars>>

\* the market order of _close_position for the inventory it holds
CloseOrderFor(inventory) ==
    IF inventory > 0
    THEN Some([side |-> "yes", action |-> "sell", count |-> inventory,
               type |-> "market"])
    ELSE IF inventory < 0
    THEN Some([side |-> "no", action |-> "sell", count |-> Abs(inventory),
               type |-> "market"])
    ELSE None

\* _sync_inventory resumes inside _close_position, then the market order is
\* sent; with no order _close_position returns and the runner calls stop()
ClosePositions(reached, delivered) ==
    /\ pc["runner"] = "close_positions_sent"
    /\ hist' = Settle(hist)
    /\ IF resp["runner"].kind = "error"
       THEN /\ pc' = [pc EXCEPT !["runner"] = "crashed"]
            /\ lock' = "free"
            /\ resp' = [resp EXCEPT !["runner"] = NoResponse]
            /\ UNCHANGED <<executor, exchange, fill_queue, session>>
       ELSE LET r     == _sync_inventory(executor, resp["runner"])
                order == CloseOrderFor(r.e.inventory)
                m     == MarketFilled(exchange, Val(order))
                seen  == [session EXCEPT
                            !.close_reported = resp["runner"].market_positions,
                            !.risk_raised = @ \/ r.raised]
            IN  /\ executor' = r.e
                /\ IF r.raised
                   THEN /\ pc' = [pc EXCEPT !["runner"] = "crashed"]
                        /\ lock' = "free"
                        /\ resp' = [resp EXCEPT !["runner"] = NoResponse]
                        /\ session' = seen
                        /\ UNCHANGED <<exchange, fill_queue>>
                   ELSE IF order # None
                   THEN /\ exchange' = IF reached THEN m.exchange ELSE exchange
                        /\ fill_queue' = IF reached THEN Append(fill_queue, m.fill)
                                         ELSE fill_queue
                        /\ resp' = [resp EXCEPT !["runner"] =
                              Outcome(reached, delivered, [kind |-> "placed"])]
                        /\ pc' = [pc EXCEPT !["runner"] = "close_order_sent"]
                        /\ session' = [seen EXCEPT !.close_orders =
                                                      Append(@, Val(order))]
                        /\ UNCHANGED lock
                   ELSE /\ pc' = CancelledTasks
                        /\ lock' = "free"
                        /\ resp' = [resp EXCEPT !["runner"] = NoResponse]
                        /\ session' = Stopping(seen)
                        /\ UNCHANGED <<exchange, fill_queue>>
    /\ UNCHANGED <<feedVars, link, call, proc>>

\* batch_create_orders of _close_position resumes; the runner calls stop()
CloseOrdered ==
    /\ pc["runner"] = "close_order_sent"
    /\ hist' = Settle(hist)
    /\ lock' = "free"
    /\ resp' = [resp EXCEPT !["runner"] = NoResponse]
    /\ IF resp["runner"].kind = "error"
       THEN /\ pc' = [pc EXCEPT !["runner"] = "crashed"]
            /\ UNCHANGED session
       ELSE /\ pc' = CancelledTasks
            /\ session' = Stopping(session)
    /\ UNCHANGED <<executor, exchange, fill_queue, feedVars, link, call, proc>>

\* run.main after start() has raised: runner.stop() cancels the tasks
MainStop ==
    /\ pc["runner"] = "crashed"
    /\ pc' = CancelledTasks
    /\ lock' = LockAfterCancel(lock)
    /\ session' = Stopping(session)
    /\ hist' = Settle(hist)
    /\ UNCHANGED <<executor, resp, exchange, fill_queue, feedVars, link, call, proc>>

\* run.main on SIGINT or SIGTERM while start() runs: shutdown_task
\* completes, start_task is cancelled at whatever await it is in, and the
\* finally clause calls runner.stop(), which cancels the socket and tick
\* tasks and closes the sockets and REST clients
ShutdownSignal ==
    /\ session.running
    /\ ~session.stopped
    /\ pc["runner"] \notin {"crashed", "stopping", "done"}
    /\ pc' = [CancelledTasks EXCEPT !["runner"] = "done"]
    /\ lock' = "free"
    /\ resp' = [t \in Tasks |-> NoResponse]
    /\ session' = [Stopping(session) EXCEPT !.shutdown_signal = TRUE,
                                              !.stopped = TRUE]
    /\ hist' = Settle(hist)
    /\ UNCHANGED <<executor, exchange, fill_queue, feedVars, link, call, proc>>

\* stop() from its gather on: both sockets and the REST clients are closed
StopDone ==
    /\ pc["runner"] = "stopping"
    /\ pc' = [pc EXCEPT !["runner"] = "done"]
    /\ session' = [session EXCEPT !.stopped = TRUE]
    /\ hist' = Settle(hist)
    /\ UNCHANGED <<executor, lock, resp, exchange, fill_queue, feedVars, link, call, proc>>

-----------------------------------------------------------------------------
(* SpecSession: one live session from the end of init_and_connect: the      *)
(* runner's poll loop, the tick task, the exchange socket task handling     *)
(* fills, and the exchange.                                                 *)

InitSession == FeedInit /\ ExecInit /\ AuxInit

SessPollBalance ==
    \E balance \in Balances, delivered \in BOOLEAN : PollBalance(balance, delivered)

SessPollChecks ==
    \E terminal \in BOOLEAN, due \in BOOLEAN : PollChecks(terminal, due, FALSE)

SessPeriodicStart == \E delivered \in BOOLEAN : PeriodicStart(delivered)

SessPeriodicOrders ==
    \E balance \in Balances, delivered \in BOOLEAN : PeriodicOrders(balance, delivered)

SessPeriodicBalance ==
    \E delivered \in BOOLEAN, listed \in BOOLEAN : PeriodicBalance(delivered, listed)

SessPeriodicInventory == PeriodicInventory(FALSE)

SessCloseStart == \E delivered \in BOOLEAN : CloseStart(delivered)

SessCloseOrders ==
    \E reached \in BOOLEAN, delivered \in BOOLEAN, listed \in BOOLEAN :
        CloseOrders(reached, delivered, listed)

SessCloseCancelled ==
    \E delivered \in BOOLEAN, listed \in BOOLEAN : CloseCancelled(delivered, listed)

SessCloseCancelSynced ==
    \E delivered \in BOOLEAN, listed \in BOOLEAN : CloseCancelSynced(delivered, listed)

SessClosePositions ==
    \E reached \in BOOLEAN, delivered \in BOOLEAN : ClosePositions(reached, delivered)

SessPlaceOrder ==
    \E action \in {"buy", "sell"}, taken \in Taken,
       reached \in BOOLEAN, accepted \in BOOLEAN, delivered \in BOOLEAN :
        /\ (taken > 0 => fill_queue = <<>>)
        /\ TickPlace(action, taken, reached, accepted, delivered)

SessHandleFill == session.tasks = "running" /\ HandleFill

\* the exchange sends a fill once the socket task has taken the previous one
SessExchangeFill ==
    /\ session.tasks = "running"
    /\ fill_queue = <<>>
    /\ \E id \in 1..MaxOrders, c \in FillSizes : ExchangeFill(id, c)

NextSession ==
    \/ SessPollBalance
    \/ PollBalanced
    \/ SessPollChecks
    \/ SessPeriodicStart
    \/ SessPeriodicOrders
    \/ SessPeriodicBalance
    \/ SessPeriodicInventory
    \/ SessCloseStart
    \/ SessCloseOrders
    \/ SessCloseCancelled
    \/ SessCloseCancelSynced
    \/ SessClosePositions
    \/ CloseOrdered
    \/ MainStop
    \/ ShutdownSignal
    \/ StopDone
    \/ TickStart
    \/ TickCancelled
    \/ TickCancelSynced
    \/ TickNoOrder
    \/ SessPlaceOrder
    \/ TickPlaced
    \/ SessHandleFill
    \/ SessExchangeFill

SpecSession == InitSession /\ [][NextSession]_vars

\* the steps of the runner and of the tick task; asyncio resumes every task
\* whose await has completed
RunnerStep ==
    \/ SessPollBalance \/ PollBalanced \/ SessPollChecks
    \/ SessPeriodicStart \/ SessPeriodicOrders \/ SessPeriodicBalance
    \/ SessPeriodicInventory
    \/ SessCloseStart \/ SessCloseOrders \/ SessCloseCancelled
    \/ SessCloseCancelSynced \/ SessClosePositions \/ CloseOrdered
    \/ MainStop \/ StopDone

TickStep ==
    \/ TickStart \/ TickCancelled \/ TickCancelSynced \/ TickNoOrder
    \/ SessPlaceOrder \/ TickPlaced

SpecSessionFair ==
    InitSession /\ [][NextSession]_vars
        /\ WF_vars(RunnerStep) /\ WF_vars(TickStep)

-----------------------------------------------------------------------------
(* Claims about the session (checked under SpecSession, SpecSessionFair and *)
(* SpecExec)                                                                *)

\* C11: a RiskLimitExceeded raised in a running session (by on_fill, by
\* reconcile or by the poll cycle's balance sync) is followed by
\* close_position and then by the shutdown: no session is shut down after
\* such a raise without close_position having been invoked.
C11_RiskClosesPosition ==
    (session.stopped /\ (session.risk_raised \/ hist.fill_raised))
        => session.close_calls > 0

\* C12: whatever inventory v the exchange reports to _close_position, once
\* it has been read exactly one market order has been submitted: sell YES of
\* v for v > 0, sell NO of |v| for v < 0, and none for v = 0.
C12_CloseOrder ==
    session.close_reported # None =>
        session.close_orders =
            (IF Val(session.close_reported) = 0 THEN <<>>
             ELSE << Val(CloseOrderFor(Val(session.close_reported))) >>)

\* C13: once terminal_exit_time is reached the runner invokes close_position,
\* exactly once in the session, and afterwards stops the sockets and the REST
\* clients; after that no poll cycle, reconcile or order placement follows.
C13_TerminalExit ==
    /\ [](session.close_calls <= 1)
    /\ (session.close_reason = "terminal") ~> session.stopped
    /\ [][session.stopped => (pc' = pc /\ executor' = executor
                                /\ exchange'.next_id = exchange.next_id)]_vars

\* C24: when a shutdown signal has been received in a running session, the
\* socket tasks are cancelled only after close_position has been invoked.
C24_SignalClosesPosition ==
    (session.shutdown_signal /\ session.tasks = "cancelled")
        => session.close_calls > 0

CreateInFlight ==
    pc["tick"] = "place_sent" \/ pc["runner"] = "close_order_sent"

SyncInFlight ==
    \/ pc["runner"] \in {"poll_balance_sent", "rec_orders_sent", "rec_balance_sent",
                         "rec_positions_sent", "close_orders_sent",
                         "close_cancel_sync_sent", "close_positions_sent"}
    \/ pc["tick"] = "cancel_sync_sent"

\* C14: a batch-create call is never in flight while a REST sync of orders,
\* balance or inventory is in flight on the same executor.
C14_NoOverlap == ~(CreateInFlight /\ SyncInFlight)

\* C19: when cancel_all (_cancel_outstanding_orders) has completed, whatever
\* the exchange answered, resting_orders is empty (so that a second
\* cancel_all finds nothing to do).
C19_CancelAllEmpties ==
    pc["tick"] = "decide" => executor.resting_orders = EmptyMap

-----------------------------------------------------------------------------
(* The order decision of OptionsExecutor.on_tick_action (lines 172-192).    *)
(* true_price is a float and min_edge a float of the configuration: both    *)
(* are held in wire units (0.00001 dollars); best_bid and best_ask are      *)
(* FixedPointDollars.  best_ask + min_edge and best_bid - min_edge are      *)
(* FixedPointDollars again: the constructor rounds them down.               *)

\* Executor.construct_order: Order.__init__ raises ValueError for a count
\* <= 0 and for a price outside [MIN_PRICE, MAX_PRICE]
construct_order(action, price, count) ==
    IF count <= 0 \/ price < MIN_PRICE \/ price > MAX_PRICE
    THEN None
    ELSE Some([side |-> "yes", action |-> action, count |-> count,
               type |-> "limit", yes_price_dollars |-> price])

\* mutant: the sell order is priced at the ask
on_tick_decision_sellask(true_price, best_bid, best_ask, min_edge, inventory, max_inventory) ==
    IF true_price >
         FixedPointDollars(best_ask * PRECISION + min_edge) * PRECISION
    THEN construct_order("buy", best_ask,
                         Min(ORDER_SIZE, Max(0, max_inventory - inventory)))
    ELSE IF true_price <
              FixedPointDollars(best_bid * PRECISION - min_edge) * PRECISION
    THEN construct_order("sell", best_ask,
                         Min(ORDER_SIZE, Max(0, inventory + max_inventory)))
    ELSE None

\* the order handed to _place_batch_order, or None
on_tick_decision(true_price, best_bid, best_ask, min_edge, inventory, max_inventory) ==
    IF true_price >
         FixedPointDollars(best_ask * PRECISION + min_edge) * PRECISION
    THEN construct_order("buy", best_ask,
                         Min(ORDER_SIZE, Max(0, max_inventory - inventory)))
    ELSE IF true_price <
              FixedPointDollars(best_bid * PRECISION - min_edge) * PRECISION
    THEN construct_order("sell", best_bid,
                         Min(ORDER_SIZE, Max(0, inventory + max_inventory)))
    ELSE None

-----------------------------------------------------------------------------
(* SpecCalls: one call of a pure function per behaviour, on arguments      *)
(* drawn from bounded sets.                                                 *)

OrderCounts == {1, 3, 10, 100}
Inventories == (-MAX_INVENTORY)..MAX_INVENTORY
WireGrid == 0..(ONE * PRECISION)   \* every wire price from 0 to 1 dollar
TruePrices == {0, 36000, 36992, 41000, 45003, 48000, 100000}
BestBids == {ZERO, 4000}           \* no bid, 0.40
BestAsks == {4200, ONE}            \* 0.42, no ask
MinEdges == {3000, 3005}           \* 0.03 and 0.03005 dollars
DecisionInventories == {-MAX_INVENTORY, 0, 7, MAX_INVENTORY}

InitCalls == FeedInit /\ ExecInit /\ AuxInit

CallConstrainOrder ==
    /\ call = NoCall
    /\ \E inventory \in Inventories, count \in OrderCounts,
       side \in {"yes", "no"}, action \in {"buy", "sell"} :
        LET e     == [ExecutorInit(MAX_INVENTORY, MINIMUM_BALANCE)
                         EXCEPT !.inventory = inventory]
            order == [side |-> side, action |-> action, count |-> count]
        IN  /\ call' = [fn |-> "constrain_order", inventory |-> inventory,
                        max_inventory |-> e.max_inventory, order |-> order,
                        result |-> constrain_order(e, order)]
            /\ UNCHANGED <<feedVars, execVars, session, link, proc>>

CallComplement ==
    /\ call = NoCall
    /\ \E wire \in WireGrid :
        LET a == FixedPointDollars(wire) IN
        /\ call' = [fn |-> "complement", wire |-> wire, a |-> a,
                    complement |-> complement(a),
                    twice |-> complement(complement(a)),
                    sum |-> FpdAdd(a, complement(a))]
        /\ UNCHANGED <<feedVars, execVars, session, link, proc>>

CallTickDecision ==
    /\ call = NoCall
    /\ \E true_price \in TruePrices, best_bid \in BestBids, best_ask \in BestAsks,
       min_edge \in MinEdges, inventory \in DecisionInventories :
        /\ call' = [fn |-> "on_tick_action", true_price |-> true_price,
                    best_bid |-> best_bid, best_ask |-> best_ask,
                    min_edge |-> min_edge, inventory |-> inventory,
                    max_inventory |-> MAX_INVENTORY,
                    result |-> on_tick_decision(true_price, best_bid, best_ask,
                                    min_edge, inventory, MAX_INVENTORY)]
        /\ UNCHANGED <<feedVars, execVars, session, link, proc>>

\* mutant: the split buys the whole count on the opposite side
flip_sale_wholebuy(inventory, order) ==
    IF order.action = "sell" /\ order.side = "yes"
    THEN IF order.count <= inventory THEN <<order>>
         ELSE IF inventory > 0
         THEN << [order EXCEPT !.count = inventory],
                 [order EXCEPT !.action = "buy", !.side = "no"] >>
         ELSE << [order EXCEPT !.side = "no", !.action = "buy"] >>
    ELSE IF order.action = "sell" /\ order.side = "no"
    THEN LET short_position == -inventory
         IN  IF short_position >= order.count THEN <<order>>
             ELSE IF short_position > 0
             THEN << [order EXCEPT !.count = short_position],
                     [order EXCEPT !.action = "buy", !.side = "yes"] >>
             ELSE << [order EXCEPT !.side = "yes", !.action = "buy"] >>
    ELSE <<order>>

\* simulate_flip_sale: the body of its loop, the orders one order becomes
flip_sale(inventory, order) ==
    IF order.action = "sell" /\ order.side = "yes"
    THEN IF order.count <= inventory THEN <<order>>
         ELSE IF inventory > 0
         THEN << [order EXCEPT !.count = inventory],
                 [order EXCEPT !.action = "buy", !.side = "no",
                               !.count = order.count - inventory] >>
         ELSE << [order EXCEPT !.side = "no", !.action = "buy"] >>
    ELSE IF order.action = "sell" /\ order.side = "no"
    THEN LET short_position == -inventory
         IN  IF short_position >= order.count THEN <<order>>
             ELSE IF short_position > 0
             THEN << [order EXCEPT !.count = short_position],
                     [order EXCEPT !.action = "buy", !.side = "yes",
                                   !.count = order.count - short_position] >>
             ELSE << [order EXCEPT !.side = "yes", !.action = "buy"] >>
    ELSE <<order>>

RECURSIVE simulate_flip_sale(_, _)
simulate_flip_sale(inventory, orders) ==
    IF orders = <<>> THEN <<>>
    ELSE flip_sale(inventory, Head(orders))
            \o simulate_flip_sale(inventory, Tail(orders))

\* the orders of a batch: limit orders at 0.40
FlipOrders ==
    {[side |-> sd, action |-> a, count |-> c, yes_price_dollars |-> 4000] :
        sd \in {"yes", "no"}, a \in {"buy", "sell"}, c \in OrderCounts}

CallFlipSale ==
    /\ call = NoCall
    /\ \E inventory \in Inventories, o1 \in FlipOrders :
        \E orders \in {<<o1>>} \cup {<<o1, o2>> : o2 \in FlipOrders} :
          /\ call' = [fn |-> "simulate_flip_sale", inventory |-> inventory,
                      orders |-> orders,
                      result |-> simulate_flip_sale(inventory, orders)]
          /\ UNCHANGED <<feedVars, execVars, session, link, proc>>

\* a book the feed can have built: a snapshot, then one delta
BookAfter(y, n, side, wire, d) ==
    _apply_delta(_apply_snapshot(OrderBookInit, 1,
                                 [yes_dollars |-> y, no_dollars |-> n]),
                 2, [side |-> side, price_dollars |-> wire, delta |-> d,
                     ts |-> 1])

CallApplyDelta ==
    /\ call = NoCall
    /\ \E y \in SnapYes, n \in SnapNo, side0 \in {"yes", "no"}, d0 \in Deltas,
          side \in {"yes", "no"}, d \in Deltas :
        \E wire0 \in WirePrices(side0), wire \in WirePrices(side) :
          LET book == BookAfter(y, n, side0, wire0, d0)
              msg  == [side |-> side, price_dollars |-> wire, delta |-> d,
                       ts |-> 2]
          IN  /\ call' = [fn |-> "_apply_delta", book |-> book, msg |-> msg,
                          result |-> _apply_delta(book, 3, msg)]
              /\ UNCHANGED <<feedVars, execVars, session, link, proc>>

CallLoadSnapshot ==
    /\ call = NoCall
    /\ \E y0 \in SnapYes, n0 \in SnapNo, side0 \in {"yes", "no"}, d0 \in Deltas,
          seq \in 1..MaxSeq, y \in SnapYes, n \in SnapNo :
        \E wire0 \in WirePrices(side0) :
          LET book == BookAfter(y0, n0, side0, wire0, d0)
              m    == [orderbook |-> book, volatility_window |-> 1,
                       price_window |->
                           PriceBufferAdd(PriceBufferInit(1),
                                          <<book.mid_price, 1>>)]
              msg  == [yes_dollars |-> y, no_dollars |-> n]
          IN  /\ call' = [fn |-> "_load_snapshot", market |-> m, seq |-> seq,
                          msg |-> msg, result |-> _load_snapshot(m, seq, msg)]
              /\ UNCHANGED <<feedVars, execVars, session, link, proc>>

NextCalls ==
    \/ CallConstrainOrder
    \/ CallComplement
    \/ CallTickDecision
    \/ CallApplyDelta
    \/ CallLoadSnapshot
    \/ CallFlipSale

SpecCalls == InitCalls /\ [][NextCalls]_vars

-----------------------------------------------------------------------------
(* Claims about single calls (checked under SpecCalls) *)

\* C15: constrain_order replaces order.count by max(0, min(order.count,
\* max_delta)), max_delta = max_inventory - inventory for a long order (buy
\* YES, sell NO) and inventory + max_inventory for a short one, and leaves
\* the rest of the order alone; buy YES of 100 at max_inventory - 3 gives 3.
C15_ConstrainOrder ==
    call.fn = "constrain_order" =>
        LET long      == \/ (call.order.action = "buy" /\ call.order.side = "yes")
                         \/ (call.order.action = "sell" /\ call.order.side = "no")
            max_delta == IF long THEN call.max_inventory - call.inventory
                         ELSE call.inventory + call.max_inventory
            least     == IF call.order.count <= max_delta THEN call.order.count
                         ELSE max_delta
        IN  /\ call.result.count = (IF least < 0 THEN 0 ELSE least)
            /\ call.result.side = call.order.side
            /\ call.result.action = call.order.action
            /\ (long /\ call.order.count = 100
                    /\ call.inventory = call.max_inventory - 3
                  => call.result.count = 3)

\* a sell YES of 100 at inventory max_inventory - 3 was clamped to
\* 2 * max_inventory - 3
C15_Witness ==
    /\ call.fn = "constrain_order"
    /\ call.order = [side |-> "yes", action |-> "sell", count |-> 100]
    /\ call.inventory = call.max_inventory - 3
    /\ call.result.count = 2 * call.max_inventory - 3

\* C17: for every FixedPointDollars value a in [0, 1]:
\* a.complement.complement = a and a + a.complement = 1.
C17_ComplementInvolution ==
    call.fn = "complement" => (call.twice = call.a /\ call.sum = ONE)

\* the complement of a price the constructor had to round down
C17_Witness ==
    /\ call.fn = "complement"
    /\ call.wire = 30005 /\ call.a = 3000
    /\ call.complement = 7000

LimitOrder(action, price, count) ==
    [side |-> "yes", action |-> action, count |-> count, type |-> "limit",
     yes_price_dollars |-> price]

\* C16 as stated: if true > best_ask + min_edge one buy-YES limit order at
\* best_ask of size min(10, max_inventory - inventory) is placed; else if
\* true < best_bid - min_edge one sell-YES limit order at best_bid of size
\* min(10, inventory + max_inventory); otherwise none.
C16_DecisionAsClaimed ==
    call.fn = "on_tick_action" =>
        IF call.true_price > call.best_ask * PRECISION + call.min_edge
        THEN call.result =
               Some(LimitOrder("buy", call.best_ask,
                        Min(ORDER_SIZE, call.max_inventory - call.inventory)))
        ELSE IF call.true_price < call.best_bid * PRECISION - call.min_edge
        THEN call.result =
               Some(LimitOrder("sell", call.best_bid,
                        Min(ORDER_SIZE, call.inventory + call.max_inventory)))
        ELSE call.result = None

\* a value in wire units cut to the 0.0001 grid, toward zero
CutToGrid(w) == IF w >= 0 THEN w - (w % PRECISION) ELSE -((-w) - ((-w) % PRECISION))

\* C16, amended: the thresholds are best_ask + min_edge and best_bid -
\* min_edge cut to the 0.0001 grid; an order is placed only if its size is
\* positive and its price is within [0.01, 0.99]; a buy condition that holds
\* with no order placed does not fall through to the sell.
C16_Decision ==
    call.fn = "on_tick_action" =>
        LET buy_size  == Min(ORDER_SIZE, call.max_inventory - call.inventory)
            sell_size == Min(ORDER_SIZE, call.inventory + call.max_inventory)
            valid(p)  == MIN_PRICE <= p /\ p <= MAX_PRICE
        IN  IF call.true_price > CutToGrid(call.best_ask * PRECISION + call.min_edge)
            THEN call.result =
                   (IF buy_size > 0 /\ valid(call.best_ask)
                    THEN Some(LimitOrder("buy", call.best_ask, buy_size))
                    ELSE None)
            ELSE IF call.true_price
                      < CutToGrid(call.best_bid * PRECISION - call.min_edge)
            THEN call.result =
                   (IF sell_size > 0 /\ valid(call.best_bid)
                    THEN Some(LimitOrder("sell", call.best_bid, sell_size))
                    ELSE None)
            ELSE call.result = None

\* true 0.48 against 0.40/0.42 with edge 0.03 and inventory 7 of 10: a buy
\* of 3 at 0.42
C16_Witness ==
    /\ call.fn = "on_tick_action"
    /\ call.true_price = 48000 /\ call.best_bid = 4000 /\ call.best_ask = 4200
    /\ call.min_edge = 3000 /\ call.inventory = 7
    /\ call.result = Some(LimitOrder("buy", 4200, 3))

-----------------------------------------------------------------------------
(* Further claims about the order-book feed (checked under SpecBook) *)

\* C18: while pending_snapshot is set a valid orderbook_delta frame is
\* dropped and leaves the market as it is; a valid orderbook_snapshot frame
\* clears pending_snapshot and is applied; the delta contiguous with a
\* snapshot just applied is applied.
C18_PendingSnapshot ==
    [][ /\ (ws.pending_snapshot /\ last_frame'.type = "orderbook_delta")
              => /\ last_frame'.outcome = "dropped"
                 /\ UNCHANGED <<orderbook, price_window, volatility, ws>>
        /\ last_frame'.type = "orderbook_snapshot"
              => /\ ~ws'.pending_snapshot
                 /\ last_frame'.outcome = "applied"
                 /\ orderbook'.seq_n = Some(last_frame'.seq)
        /\ (/\ last_frame.type = "orderbook_snapshot"
            /\ last_frame'.type = "orderbook_delta"
            /\ last_frame'.seq = last_frame.seq + 1)
              => /\ last_frame'.outcome = "applied"
                 /\ orderbook'.seq_n = Some(last_frame'.seq)
      ]_vars

\* after a rebuild (a subscribe was sent, so pending_snapshot had been set)
\* a snapshot has cleared the flag and a delta has been applied on top of it
C18_Witness ==
    /\ ws.message_id > SubscribedWs.message_id
    /\ ~ws.pending_snapshot
    /\ ~last_frame.gap_open
    /\ last_frame.type = "orderbook_delta"
    /\ last_frame.outcome = "applied"
    /\ last_frame.prev_seq # None

-----------------------------------------------------------------------------
(* SpecWs: the connection of KalshiWebsocket from the runner's              *)
(* init_and_connect to its stop: connect with retries, the subscriptions,  *)
(* the run() loop, the exchange closing the socket.  The runner subscribes *)
(* the one market Ticker.  A send succeeds on an open socket.              *)

MAX_RETRIES == 5

\* connect(): failures is the number of attempts that fail before one
\* succeeds; the retry count survives the call
connect(l, failures) ==
    IF l.retries + failures >= MAX_RETRIES
    THEN [link |-> [l EXCEPT !.retries = Max(l.retries, MAX_RETRIES)],
          ok |-> FALSE]
    ELSE [link |-> [l EXCEPT !.sock = "open", !.retries = 0,
                             !.opened = l.opened + 1],
          ok |-> TRUE]

subscribe_fills(w, sent) ==
    IF ~sent THEN [ws |-> w, ok |-> FALSE]
    ELSE [ws |-> [w EXCEPT !.message_id = w.message_id + 1], ok |-> TRUE]

\* _restore_subs(): the tickers of ticker_to_sid (Ticker or none) are
\* subscribed again after both maps were cleared
_restore_subs(w, sent) ==
    LET tickers == Keys(w.ticker_to_sid)
        w0 == [w EXCEPT !.ticker_to_sid = EmptyMap,
                        !.sid_to_ticker = EmptyMap]
        r  == subscribe_orderbook(w0, Ticker, sent)
    IN  IF tickers = {} THEN [ws |-> w, ok |-> TRUE, restored |-> {}]
        ELSE [ws |-> r.ws, ok |-> r.ok,
              restored |-> IF r.ok THEN tickers ELSE {}]

InitWs ==
    /\ orderbook = OrderBookInit
    /\ volatility_window = 1
    /\ price_window = PriceBufferInit(volatility_window)
    /\ volatility = None
    /\ ws = KalshiWebsocketInit
    /\ last_frame = NoFrame
    /\ ExecInit
    /\ session = SessionInit
    /\ link = LinkInit
    /\ call = NoCall
    /\ proc = [e \in Executors |-> ProcessorInit]

wsRest == <<orderbook, price_window, volatility, volatility_window,
            last_frame, execVars, session, call, proc>>

\* SessionRunner.init_and_connect: connect, subscribe_orderbook,
\* subscribe_fills; an exception leaves main before start()
InitAndConnect ==
    /\ link.pc = "init"
    /\ \E failures \in 0..MAX_RETRIES :
          LET c  == connect(link, failures)
              s1 == subscribe_orderbook(ws, Ticker, TRUE)
              s2 == subscribe_fills(s1.ws, TRUE)
          IN  IF ~c.ok
              THEN /\ link' = [c.link EXCEPT !.pc = "exited"]
                   /\ ws' = ws
              ELSE /\ link' = [c.link EXCEPT !.pc = "ready"]
                   /\ ws' = s2.ws
    /\ UNCHANGED wsRest

\* run(): self.is_running = True
RunStart ==
    /\ link.pc = "ready"
    /\ link' = [link EXCEPT !.is_running = TRUE, !.pc = "top"]
    /\ UNCHANGED <<ws, wsRest>>

\* run(): the head of the while loop up to `async for message in self.ws`;
\* an exception of connect or _restore_subs is logged and the loop goes on
RunTop ==
    /\ link.pc = "top"
    /\ IF ~link.is_running
       THEN link' = [link EXCEPT !.pc = "exited"] /\ ws' = ws
       ELSE IF link.sock = "none"
       THEN \E failures \in 0..MAX_RETRIES :
               LET c == connect(link, failures)
                   r == _restore_subs(ws, TRUE)
               IN  IF ~c.ok
                   THEN link' = c.link /\ ws' = ws
                   ELSE /\ ws' = r.ws
                        /\ link' = [c.link EXCEPT !.pc = "listening",
                                                  !.restored = r.restored]
       ELSE link' = [link EXCEPT !.pc = "listening"] /\ ws' = ws
    /\ UNCHANGED wsRest

\* handle_msg on a "subscribed" frame of the orderbook_delta channel; the
\* exchange answers a subscribe it has received
WsSubscribed ==
    /\ link.pc = "listening"
    /\ link.sock = "open"
    /\ \E id \in Keys(ws.pending_requests) :
          LET ticker == ws.pending_requests[id]
          IN  ws' = [ws EXCEPT
                        !.pending_requests = MapDel(ws.pending_requests, id),
                        !.sid_to_ticker = MapSet(ws.sid_to_ticker, id, ticker),
                        !.ticker_to_sid = MapSet(ws.ticker_to_sid, ticker, id)]
    /\ UNCHANGED <<link, wsRest>>

\* handle_msg on a malformed order-book frame: the book is rebuilt
WsInvalidFrame ==
    /\ link.pc = "listening"
    /\ link.sock = "open"
    /\ HandleInvalidBookFrame(TRUE, TRUE)
    /\ UNCHANGED <<execVars, auxVars>>

\* codes of error frames: already subscribed, authentication failure, other
ErrorCodes == {6, 401, 500}

\* handle_msg on an error frame: "raised" when an exception leaves it
handle_error(code) == IF code = 401 THEN "raised" ELSE "logged"

\* run(): what the try around handle_msg does with its outcome; the
\* `except Exception` clause logs the exception and the iteration goes on
run_after_msg(outcome) == "listening"

\* an error frame arrives and run() hands it to handle_msg
WsErrorFrame ==
    /\ link.pc = "listening"
    /\ link.sock = "open"
    /\ \E code \in ErrorCodes :
          link' = [link EXCEPT !.last_error = Some(code),
                               !.pc = run_after_msg(handle_error(code))]
    /\ UNCHANGED <<ws, wsRest>>

\* the exchange closes the socket, normally or with an error
ExchangeClose ==
    /\ link.is_running
    /\ link.sock = "open"
    /\ \E kind \in {"ok", "error"} :
          link' = [link EXCEPT !.sock = "closed", !.close_kind = kind,
                               !.closed_with = Keys(ws.ticker_to_sid),
                               !.restored = {}]
    /\ UNCHANGED <<ws, wsRest>>

\* run(): `async for message in self.ws` on the closed socket.  After a
\* normal close the iteration ends; after an error ConnectionClosed is
\* raised and run() sleeps.  self.ws is left as it is.
RunClosed ==
    /\ link.pc = "listening"
    /\ link.sock = "closed"
    /\ link' = [link EXCEPT !.pc =
                   IF ~link.is_running THEN "exited"
                   ELSE IF link.close_kind = "error" THEN "sleeping"
                   ELSE "top"]
    /\ UNCHANGED <<ws, wsRest>>

\* run(): after asyncio.sleep(.1)
RunWake ==
    /\ link.pc = "sleeping"
    /\ link' = [link EXCEPT !.pc = IF link.is_running THEN "top" ELSE "exited"]
    /\ UNCHANGED <<ws, wsRest>>

\* SessionRunner.stop: the run() task is cancelled, then close()
WsClose ==
    /\ link.is_running
    /\ link' = [link EXCEPT !.is_running = FALSE, !.pc = "exited",
                            !.sock = IF link.sock = "none" THEN "none"
                                     ELSE "closed"]
    /\ UNCHANGED <<ws, wsRest>>

RunStepWs == RunStart \/ RunTop \/ RunClosed \/ RunWake

NextWs ==
    \/ InitAndConnect
    \/ RunStart
    \/ RunTop
    \/ WsSubscribed
    \/ WsInvalidFrame
    \/ WsErrorFrame
    \/ ExchangeClose
    \/ RunClosed
    \/ RunWake
    \/ WsClose

SpecWs == InitWs /\ [][NextWs]_vars

\* the event loop runs the run() task whenever it can take a step
SpecWsFair == SpecWs /\ WF_vars(RunStepWs)

\* C21: an error frame with code 401 ends run() with the exception
\* handle_msg raised; an error frame with any other code leaves run()
\* iterating over the socket.
C21_AuthFatal ==
    [][ link'.last_error # link.last_error
          => /\ link'.last_error = Some(401) => link'.pc = "failed"
             /\ link'.last_error # Some(401) => link'.pc = "listening"
      ]_vars

\* C20: once the exchange has closed the socket of a running client, the
\* client eventually holds a new open connection on which a subscribe was
\* sent for every ticker that was in ticker_to_sid at the close (or it has
\* been stopped meanwhile).
C20_Reconnects ==
    (link.sock = "closed" /\ link.is_running)
        ~> (\/ ~link.is_running
            \/ link.sock = "open" /\ link.closed_with \subseteq link.restored)

-----------------------------------------------------------------------------
(* Claims about single calls on the book (checked under SpecCalls) *)

SideBook(ob, side) == IF side = "yes" THEN ob.yes_book ELSE ob.no_book

\* C23: a delta at a price absent from its side leaves both level maps and
\* the cached best_bid, bid_size, best_ask, ask_size as they are when
\* delta <= 0 and inserts the level with count = delta when delta > 0; a
\* delta bringing an existing level to count <= 0 removes the level; every
\* level of the resulting book has count >= 1.
C23_DeltaLevels ==
    call.fn = "_apply_delta" =>
        LET side   == call.msg.side
            other  == IF side = "yes" THEN "no" ELSE "yes"
            price  == FixedPointDollars(call.msg.price_dollars)
            delta  == call.msg.delta
            before == SideBook(call.book, side)
            after  == SideBook(call.result, side)
        IN  /\ SideBook(call.result, other) = SideBook(call.book, other)
            /\ (price \notin Keys(before) /\ delta <= 0)
                  => /\ after = before
                     /\ call.result.best_bid = call.book.best_bid
                     /\ call.result.bid_size = call.book.bid_size
                     /\ call.result.best_ask = call.book.best_ask
                     /\ call.result.ask_size = call.book.ask_size
            /\ (price \notin Keys(before) /\ delta > 0)
                  => after = MapSet(before, price, delta)
            /\ (price \in Keys(before) /\ before[price] + delta <= 0)
                  => after = MapDel(before, price)
            /\ \A k \in Keys(call.result.yes_book) : call.result.yes_book[k] >= 1
            /\ \A k \in Keys(call.result.no_book) : call.result.no_book[k] >= 1

\* a negative delta for the NO price 0.6000, absent from a book that holds
\* levels on both sides
C23_Witness ==
    /\ call.fn = "_apply_delta"
    /\ call.msg.side = "no"
    /\ call.msg.delta < 0
    /\ FixedPointDollars(call.msg.price_dollars) \notin Keys(call.book.no_book)
    /\ Keys(call.book.no_book) # {}
    /\ Keys(call.book.yes_book) # {}
    /\ call.result.no_book = call.book.no_book

\* the sizes of the levels of a list whose price is p on the grid, summed
RECURSIVE SumAt(_, _)
SumAt(levels, p) ==
    IF levels = <<>> THEN 0
    ELSE (IF FixedPointDollars(Head(levels)[1]) = p THEN Head(levels)[2] ELSE 0)
         + SumAt(Tail(levels), p)

SummedLevels(levels) ==
    [p \in {FixedPointDollars(levels[i][1]) : i \in DOMAIN levels}
        |-> SumAt(levels, p)]

\* C26: after a snapshot is loaded, whatever the market held, the YES and NO
\* level maps are the snapshot's levels with duplicate prices summed, seq is
\* the snapshot's seq, the timestamp is unset and the PriceBuffer is empty.
C26_SnapshotReplaces ==
    call.fn = "_load_snapshot" =>
        /\ call.result.orderbook.yes_book = SummedLevels(call.msg.yes_dollars)
        /\ call.result.orderbook.no_book = SummedLevels(call.msg.no_dollars)
        /\ call.result.orderbook.seq_n = Some(call.seq)
        /\ call.result.orderbook.timestamp = None
        /\ call.result.price_window.size = 0
        /\ \A i \in DOMAIN call.result.price_window.buffer :
              call.result.price_window.buffer[i] = None

\* a market holding the YES level 0.60 and one price sample loads a snapshot
\* whose two YES levels 0.30000 and 0.30005 fall on the same price
C26_Witness ==
    /\ call.fn = "_load_snapshot"
    /\ 6000 \in Keys(call.market.orderbook.yes_book)
    /\ call.market.orderbook.timestamp # None
    /\ call.market.price_window.size > 0
    /\ call.msg.yes_dollars = << <<30000, 1>>, <<30005, 1>> >>
    /\ call.result.orderbook.yes_book = MapSet(EmptyMap, 3000, 2)

-----------------------------------------------------------------------------
(* Claims about the simulator's order translation (checked under SpecCalls) *)

\* the change of the signed inventory when the order is filled completely
FilledChange(order) ==
    IF (order.action = "buy" /\ order.side = "yes")
          \/ (order.action = "sell" /\ order.side = "no")
    THEN order.count
    ELSE -order.count

RECURSIVE TotalChange(_)
TotalChange(orders) ==
    IF orders = <<>> THEN 0
    ELSE FilledChange(Head(orders)) + TotalChange(Tail(orders))

\* C25: the list simulate_flip_sale returns changes the inventory, if filled
\* completely, by what the given orders would (-c for a sell YES of c, +c for
\* a sell NO of c); a given sell order has become itself, a sell of the held
\* amount plus an opposite-side buy, or an opposite-side buy; no sell of the
\* result exceeds the held inventory of its side.
C25_FlipSalePreservesChange ==
    call.fn = "simulate_flip_sale" =>
        /\ TotalChange(call.result) = TotalChange(call.orders)
        /\ Len(call.orders) = 1 =>
              LET o == call.orders[1]
                  r == call.result
                  held == IF o.side = "yes" THEN call.inventory
                          ELSE -call.inventory
                  opp  == IF o.side = "yes" THEN "no" ELSE "yes"
              IN  IF o.action = "sell"
                  THEN \/ r = <<o>> /\ o.count <= held
                       \/ /\ Len(r) = 2
                          /\ 0 < held /\ held < o.count
                          /\ r[1].action = "sell" /\ r[1].side = o.side
                          /\ r[1].count = held
                          /\ r[2].action = "buy" /\ r[2].side = opp
                          /\ r[2].count = o.count - held
                       \/ /\ Len(r) = 1
                          /\ held <= 0
                          /\ r[1].action = "buy" /\ r[1].side = opp
                          /\ r[1].count = o.count
                  ELSE r = <<o>>
        /\ \A i \in DOMAIN call.result :
              LET r == call.result[i]
              IN  r.action = "sell" =>
                     r.count <= (IF r.side = "yes" THEN call.inventory
                                 ELSE -call.inventory)

\* a sell YES of 10 at inventory 7 is split into a sell YES of 7 and a buy
\* NO of 3
C25_Witness ==
    /\ call.fn = "simulate_flip_sale"
    /\ call.inventory = 7
    /\ Len(call.orders) = 1
    /\ call.orders[1].action = "sell" /\ call.orders[1].side = "yes"
    /\ call.orders[1].count = 10
    /\ Len(call.result) = 2
    /\ call.result[1].count = 7
    /\ call.result[2].count = 3

-----------------------------------------------------------------------------
(* SpecTick: the processor tasks of the options executor (on_tick,         *)
(* _tick_processor) and of the market-making executor (trigger_process,    *)
(* _update_processor).  A task is "waiting" in wait_for(event.wait(), 1.0), *)
(* "expiring" once the timer of wait_for has fired and the task has not    *)
(* resumed yet, "acting" in the trading action (on_tick_action or          *)
(* _attempt_execute_quote, with all its awaits), or "done".                 *)

MaxTasks == 3

\* mutant: a processor task is spawned on every call
on_tick_nocheck(p) ==
    [p EXCEPT !.event = TRUE,
              !.tasks = Append(p.tasks, "waiting"),
              !.task = Some(Len(p.tasks) + 1)]

\* on_tick, and trigger_process once should_attempt_quote() has held: set
\* the event, spawn a processor if none is referred to or the one referred
\* to is done
on_tick(p) ==
    IF p.task = None \/ p.tasks[Val(p.task)] = "done"
    THEN [p EXCEPT !.event = TRUE,
                   !.tasks = Append(p.tasks, "waiting"),
                   !.task = Some(Len(p.tasks) + 1)]
    ELSE [p EXCEPT !.event = TRUE]

InitTick == FeedInit /\ ExecInit /\ AuxInit

tickRest == <<feedVars, execVars, session, link, call>>

\* a tick of the underlying arrives (options), or a market update or fill
\* arrives (market making) and should_attempt_quote() says whether to go on
OnTick ==
    /\ \E e \in Executors, should_attempt_quote \in BOOLEAN :
          /\ e = "options" => should_attempt_quote
          /\ Len(on_tick(proc[e]).tasks) <= MaxTasks
          /\ proc' = [proc EXCEPT ![e] = IF should_attempt_quote
                                          THEN on_tick(proc[e]) ELSE proc[e]]
    /\ UNCHANGED tickRest

\* the processor's wait returns with the event set: clear it, start the
\* trading action
ProcessorWake ==
    /\ \E e \in Executors :
        \E t \in DOMAIN proc[e].tasks :
          /\ proc[e].tasks[t] = "waiting"
          /\ proc[e].event
          /\ proc' = [proc EXCEPT ![e].event = FALSE, ![e].tasks[t] = "acting"]
    /\ UNCHANGED tickRest

\* the timer of the processor's wait_for fires and cancels the wait; the
\* timer may expire in the iteration of the event loop in which the event
\* is set
ProcessorTimeout ==
    /\ \E e \in Executors :
        \E t \in DOMAIN proc[e].tasks :
          /\ proc[e].tasks[t] = "waiting"
          /\ proc' = [proc EXCEPT ![e].tasks[t] = "expiring"]
    /\ UNCHANGED tickRest

\* the processor resumes with the TimeoutError and returns
ProcessorReturns ==
    /\ \E e \in Executors :
        \E t \in DOMAIN proc[e].tasks :
          /\ proc[e].tasks[t] = "expiring"
          /\ proc' = [proc EXCEPT ![e].tasks[t] = "done"]
    /\ UNCHANGED tickRest

\* the trading action returns and the processor waits again, or it raises
\* and the exception ends the task
ActionEnds ==
    /\ \E e \in Executors, raised \in BOOLEAN :
        \E t \in DOMAIN proc[e].tasks :
          /\ proc[e].tasks[t] = "acting"
          /\ proc' = [proc EXCEPT ![e].tasks[t] =
                                     IF raised THEN "done" ELSE "waiting"]
    /\ UNCHANGED tickRest

NextTick ==
    OnTick \/ ProcessorWake \/ ProcessorTimeout \/ ProcessorReturns \/ ActionEnds

SpecTick == InitTick /\ [][NextTick]_vars

\* a step of the options executor's processor task; the event loop resumes
\* a task whose await has completed
OptionsProcessorStep ==
    /\ ProcessorWake \/ ProcessorReturns \/ ActionEnds
    /\ proc'["market_making"] = proc["market_making"]

SpecTickFair == SpecTick /\ WF_vars(OptionsProcessorStep)

Alive(p) == {t \in DOMAIN p.tasks : p.tasks[t] # "done"}
Acting(p) == {t \in DOMAIN p.tasks : p.tasks[t] = "acting"}

\* C22: of each executor at most one processor task is alive and at most
\* one trading action is executing, in every reachable state.
C22_OneProcessor ==
    \A e \in Executors :
        /\ Cardinality(Alive(proc[e])) <= 1
        /\ Cardinality(Acting(proc[e])) <= 1

\* the first processor of the options executor has ended, the second one is
\* in its trading action and a further tick has set the event meanwhile
C22_Witness ==
    /\ Len(proc["options"].tasks) = 2
    /\ proc["options"].tasks[1] = "done"
    /\ proc["options"].tasks[2] = "acting"
    /\ proc["options"].event

-----------------------------------------------------------------------------
(* Further claims about the executor (checked under SpecExec) *)

\* C27: when _place_batch_order processes a successful response for order
\* id, id leaves unregistered_fills, and resting_orders[id] becomes
\* remaining_count minus the fill count accumulated for id in
\* unregistered_fills if that is positive; otherwise id stays out of
\* resting_orders.
C27_PlacementRegisters ==
    [][ (/\ pc["tick"] = "place_sent"
         /\ pc'["tick"] # "place_sent"
         /\ resp["tick"].kind = "placed")
          => LET id  == resp["tick"].order_id
                 net == resp["tick"].remaining_count
                           - MapGet(executor.unregistered_fills, id, 0)
             IN  /\ id \notin Keys(executor'.unregistered_fills)
                 /\ \A j \in Keys(executor.unregistered_fills) \ {id} :
                       /\ j \in Keys(executor'.unregistered_fills)
                       /\ executor'.unregistered_fills[j]
                             = executor.unregistered_fills[j]
                 /\ IF net > 0
                    THEN executor'.resting_orders
                            = MapSet(executor.resting_orders, id, net)
                    ELSE /\ executor'.resting_orders = executor.resting_orders
                         /\ id \notin Keys(executor'.resting_orders)
      ]_vars

\* a placement completed whose response reported 6 remaining after a fill
\* of 4 handled during the round trip: the order is registered with 2
C27_Witness ==
    /\ hist.place = "ok"
    /\ Len(hist.during) = 1
    /\ hist.during[1].order_id = hist.response.order_id
    /\ hist.response.remaining_count > hist.during[1].count
    /\ hist.response.order_id \in Keys(executor.resting_orders)
    /\ executor.resting_orders[hist.response.order_id]
          = hist.response.remaining_count - hist.during[1].count

\* C28: once _place_batch_order has returned after an error of the
\* batch-create call it has reconciled with the exchange: every order that
\* rests on the exchange is in resting_orders.
C28_ErrorReconciles ==
    hist.place \in {"error", "rejected"}
        => Keys(exchange.orders) \subseteq Keys(executor.resting_orders)

\* C29: cancel_all sends no request when resting_orders is empty and
\* otherwise one batch cancel for exactly its ids; from the response the ids
\* acknowledged without error are removed and the others kept; if any id
\* remains _sync_orders follows and replaces resting_orders by the orders the
\* exchange reports resting.
C29_CancelAll ==
    [][ /\ (pc["tick"] = "idle" /\ pc'["tick"] # "idle")
              => IF executor.resting_orders = EmptyMap
                 THEN /\ pc'["tick"] = "decide"
                      /\ exchange' = exchange
                      /\ resp' = resp
                 ELSE /\ pc'["tick"] = "cancel_sent"
                      /\ exchange' \in {exchange,
                                        Cancelled(exchange,
                                                  Keys(executor.resting_orders))}
                      /\ resp'["tick"].kind = "cancel"
                            => Keys(resp'["tick"].orders)
                                  = Keys(executor.resting_orders)
        /\ (/\ pc["tick"] = "cancel_sent" /\ pc'["tick"] # "cancel_sent"
            /\ resp["tick"].kind = "cancel")
              => LET acked == {id \in Keys(resp["tick"].orders) :
                                  ~resp["tick"].orders[id].error}
                     kept  == Keys(executor.resting_orders) \ acked
                 IN  /\ Keys(executor'.resting_orders) = kept
                     /\ \A id \in kept : executor'.resting_orders[id]
                                            = executor.resting_orders[id]
                     /\ pc'["tick"] = IF kept = {} THEN "decide"
                                      ELSE "cancel_sync_sent"
                     /\ kept # {} => resp'["tick"].kind \in {"orders", "error"}
        /\ (/\ pc["tick"] = "cancel_sync_sent"
            /\ pc'["tick"] # "cancel_sync_sent"
            /\ resp["tick"].kind = "orders")
              => /\ executor'.resting_orders = RestingOrders(resp["tick"])
                 /\ pc'["tick"] = "decide"
      ]_vars

\* the batch cancel was answered with an error for an id, the id was kept
\* and the orders request of _sync_orders has been answered
C29_Witness ==
    /\ pc["tick"] = "cancel_sync_sent"
    /\ executor.resting_orders # EmptyMap
    /\ resp["tick"].kind = "orders"

\* C30: a reconcile that completes without error has taken over the
\* exchange's responses: resting_orders is the orders reported resting and
\* unregistered_fills is empty after the orders response, balance is the
\* reported balance after the balance response, and inventory is the
\* reported position, 0 when the positions response has no entry for the
\* ticker.
C30_ReconcileAdopts ==
    [][ /\ (pc["runner"] = "orders_sent" /\ pc'["runner"] = "balance_sent")
              => /\ executor'.resting_orders = RestingOrders(resp["runner"])
                 /\ executor'.unregistered_fills = EmptyMap
        /\ (pc["runner"] = "balance_sent" /\ pc'["runner"] = "positions_sent")
              => executor'.balance = resp["runner"].balance
        /\ (pc["runner"] = "positions_sent" /\ pc'["runner"] = "idle")
              => executor'.inventory
                    = (IF resp["runner"].market_positions = <<>> THEN 0
                       ELSE resp["runner"].market_positions[1])
      ]_vars

\* C31: reconcile fails with BalanceLimitExceeded whenever the balance
\* reported to it is below minimum_balance and with PositionLimitExceeded
\* whenever the position reported to it exceeds max_inventory in absolute
\* value, and whenever reconcile fails (a limit or an error of a REST call)
\* the execution lock has been released when the error reaches the caller.
C31_ReconcileFails ==
    [][ /\ (/\ pc["runner"] = "balance_sent"
            /\ pc'["runner"] # "balance_sent"
            /\ resp["runner"].kind = "balance"
            /\ resp["runner"].balance < executor.minimum_balance * 100)
              => pc'["runner"] = "risk_exceeded"
        /\ (/\ pc["runner"] = "positions_sent"
            /\ pc'["runner"] # "positions_sent"
            /\ resp["runner"].kind = "positions"
            /\ resp["runner"].market_positions # <<>>
            /\ Abs(resp["runner"].market_positions[1]) > executor.max_inventory)
              => pc'["runner"] = "risk_exceeded"
        /\ (/\ pc["runner"] \in {"orders_sent", "balance_sent", "positions_sent"}
            /\ pc'["runner"] \in {"failed", "risk_exceeded"})
              => lock' = "free"
      ]_vars

\* reconcile has failed with PositionLimitExceeded on a short position
\* beyond the limit (the balance it read was sufficient) and the lock is free
C31_Witness ==
    /\ pc["runner"] = "risk_exceeded"
    /\ executor.balance >= executor.minimum_balance * 100
    /\ executor.inventory < -executor.max_inventory
    /\ lock = "free"

-----------------------------------------------------------------------------
(* Further claims about the frames of the order-book channel (SpecBook)     *)

\* C32: when BinaryMarket.update receives a delta whose seq is not the
\* book's seq_n + 1 while seq_n is set, it calls on_gap exactly once, with
\* the market's ticker, leaves the order book, the price window and the
\* cached volatility unchanged, and does not call on_update.
C32_GapLeavesMarket ==
    [][ (/\ last_frame'.type = "orderbook_delta"
         /\ ~ws.pending_snapshot
         /\ orderbook.seq_n # None
         /\ last_frame'.seq # Val(orderbook.seq_n) + 1)
          => /\ last_frame'.on_gap = <<Ticker>>
             /\ ~last_frame'.on_update
             /\ UNCHANGED <<orderbook, price_window, volatility>>
      ]_vars

\* a delta two ahead of a book that holds levels was rejected for the gap
C32_Witness ==
    /\ last_frame.outcome = "gap"
    /\ last_frame.on_gap = <<Ticker>>
    /\ orderbook.seq_n # None
    /\ last_frame.seq = Val(orderbook.seq_n) + 2
    /\ orderbook.yes_book # EmptyMap
    /\ price_window.size > 0

\* the step handles a gap notification: a delta rejected by
\* BinaryMarket.update or an order-book frame that failed validation
GapNotified ==
    last_frame'.outcome \in {"gap", "rebuild"}
        /\ (last_frame' # last_frame \/ ws' # ws)

-----------------------------------------------------------------------------
(* SpecBuffer: one PriceBuffer from its construction, under add calls.     *)
(* call holds the buffer and the sequence of all elements added so far.    *)

MaxCapacity == 3
MaxAdds == 6
Elems == {1, 2}

InitBuffer ==
    /\ FeedInit /\ ExecInit
    /\ session = SessionInit
    /\ link = LinkListening
    /\ proc = [e \in Executors |-> ProcessorInit]
    /\ \E max_size \in 1..MaxCapacity :
          call = [fn |-> "PriceBuffer", buffer |-> PriceBufferInit(max_size),
                  added |-> <<>>]

BufferAdd ==
    /\ Len(call.added) < MaxAdds
    /\ \E elem \in Elems :
          call' = [call EXCEPT !.buffer = PriceBufferAdd(@, elem),
                               !.added = Append(@, elem)]
    /\ UNCHANGED <<feedVars, execVars, session, link, proc>>

NextBuffer == BufferAdd

SpecBuffer == InitBuffer /\ [][NextBuffer]_vars

\* C34: PriceBuffer is a bounded FIFO of capacity N: after any sequence of
\* add calls its length is min(number of adds, N), index i holds the i-th
\* oldest of the last N elements added, and get_last_n(n) is the sequence of
\* the min(n, length) elements added last, in the order they were added.
C34_BoundedFifo ==
    call.fn = "PriceBuffer" =>
        LET pb  == call.buffer
            k   == Len(call.added)
            len == pb.size
        IN  /\ len = Min(k, pb.capacity)
            /\ \A i \in 0..(len - 1) :
                  PriceBufferGet(pb, i) = call.added[k - len + i + 1]
            /\ \A n \in 0..(pb.capacity + 1) :
                  get_last_n(pb, n)
                     = SubSeq(call.added, k - Min(n, len) + 1, k)

\* a buffer of capacity 2 or more that has wrapped around: more elements
\* were added than it holds, the oldest retained is not in slot 0, and the
\* elements retained differ
C34_Witness ==
    /\ call.fn = "PriceBuffer"
    /\ call.buffer.capacity >= 2
    /\ Len(call.added) > call.buffer.capacity
    /\ call.buffer.head # 0
    /\ PriceBufferGet(call.buffer, 0) # PriceBufferGet(call.buffer, 1)

-----------------------------------------------------------------------------
(* SpecStale: the order-book feed of a live session together with the       *)
(* runner's poll loop.  Time enters as session.quiet: the exchange has      *)
(* delivered no order-book frame for longer than                            *)
(* maximum_orderbook_staleness.  A delta's ts is taken as the time of its   *)
(* receipt, so that time_ns() - orderbook.timestamp exceeds the limit       *)
(* exactly when quiet holds and a timestamp is set.  No order is placed:    *)
(* the executor rests flat.                                                 *)

StaleYes == { << <<30000, 1>> >> }
StaleNo  == { <<>>, << <<30010, 1>> >> }

InitStale == FeedInit /\ ExecInit /\ AuxInit

staleRest == <<execVars, link, call, proc>>

StaleSnapshot ==
    /\ session.tasks = "running"
    /\ \E seq \in 1..MaxSeq, y \in StaleYes, n \in StaleNo :
          HandleSnapshot(seq, [yes_dollars |-> y, no_dollars |-> n])
    /\ session' = [session EXCEPT !.quiet = FALSE]
    /\ UNCHANGED staleRest

StaleDelta ==
    /\ session.tasks = "running"
    /\ \E seq \in 1..MaxSeq, d \in {-1, 1}, ts \in BookTs :
          /\ WithinCount("yes", 30000, d)
          /\ HandleDelta(seq, [side |-> "yes", price_dollars |-> 30000,
                               delta |-> d, ts |-> ts])
    /\ session' = [session EXCEPT !.quiet = FALSE]
    /\ UNCHANGED staleRest

\* maximum_orderbook_staleness elapses without a frame
FeedSilent ==
    /\ session.running
    /\ ~session.quiet
    /\ session' = [session EXCEPT !.quiet = TRUE]
    /\ UNCHANGED <<feedVars, execVars, link, call, proc>>

StalePollChecks ==
    \E terminal \in BOOLEAN, due \in BOOLEAN :
        PollChecks(terminal, due, session.quiet)

StalePeriodicInventory == PeriodicInventory(session.quiet)

NextStale ==
    \/ StaleSnapshot
    \/ StaleDelta
    \/ FeedSilent
    \/ SessPollBalance
    \/ PollBalanced
    \/ StalePollChecks
    \/ SessPeriodicStart
    \/ SessPeriodicOrders
    \/ SessPeriodicBalance
    \/ StalePeriodicInventory
    \/ SessCloseStart
    \/ SessCloseOrders
    \/ SessClosePositions
    \/ MainStop
    \/ StopDone

SpecStale == InitStale /\ [][NextStale]_vars

\* C35: once an envelope (snapshot or delta) has been applied and the feed
\* has been silent for longer than maximum_orderbook_staleness, the poll
\* cycle the runner completes next detects it: no poll cycle returns to the
\* top of the loop while the feed stays silent; it invokes close_position.
C35_StalenessDetected ==
    [][ (/\ session.quiet /\ session'.quiet
         /\ orderbook.seq_n # None
         /\ pc["runner"] \in {"checks", "rec_positions_sent"})
          => pc'["runner"] # "idle" ]_vars

-----------------------------------------------------------------------------
(* Claims about the execution lock and the limits (SpecExec) *)

\* C36: no task waits for the execution lock while it holds it: whatever
\* the REST calls made under the lock return or raise, the holder of the
\* lock is never suspended in reconcile()'s acquisition of that same lock.
C36_NoSelfWait ==
    \A t \in Tasks : ~(lock = t /\ pc[t] = "deadlock")

-----------------------------------------------------------------------------
(* Claims about the tick processor (SpecTickFair) *)

\* C37: no tick signal is lost: whenever on_tick has set the tick event, a
\* tick action starts afterwards (the processor clears the event and enters
\* on_tick_action), without a further on_tick call.
C37_NoTickLost ==
    proc["options"].event ~> ~proc["options"].event

\* C38: with every fill coming from an order the executor placed and the
\* inventory starting at 0, |inventory| never exceeds max_inventory and no
\* fill raises PositionLimitExceeded, however the delivery of fills
\* interleaves with the cancel and place round trips of the tick actions.
C38_InventoryWithinLimit ==
    /\ Abs(executor.inventory) <= executor.max_inventory
    /\ ~hist.fill_raised

-----------------------------------------------------------------------------
(* SpecSim: the options simulator executor                                  *)
(* (core/executor/OptionsExecutorSimulator.py) in a demo session.  Every    *)
(* market update runs simulate_fill_logic on the new book and sets the tick *)
(* event; the tick action cancels the simulated orders, decides, and places *)
(* through simulate_place_orders.  call holds sim_open_orders, the tick     *)
(* event and the position of the tick action; the simulated balance is not  *)
(* modelled.                                                                *)

SimMaxInventories == {4, 15}

\* simulate_place_orders: flip sales, the clamp, and the orders kept
simulate_place_orders(e, sim_open_orders, order) ==
    LET orders      == simulate_flip_sale(e.inventory, order)
        constrained == [i \in 1..Len(orders) |-> constrain_order(e, orders[i])]
    IN  sim_open_orders \o SelectSeq(constrained, LAMBDA o : o.count # 0)

\* simulate_fill_logic: every open order the book crosses is filled whole
RECURSIVE simulate_fill_logic(_, _, _)
simulate_fill_logic(inventory, sim_open_orders, snapshot) ==
    IF sim_open_orders = <<>>
    THEN [inventory |-> inventory, sim_open_orders |-> <<>>]
    ELSE LET order   == Head(sim_open_orders)
             long    == (order.side = "yes") = (order.action = "buy")
             filled  == IF long
                        THEN snapshot.best_ask <= order.yes_price_dollars
                        ELSE snapshot.best_bid >= order.yes_price_dollars
             delta   == IF long THEN order.count ELSE -order.count
             rest    == simulate_fill_logic(
                            IF filled THEN inventory + delta ELSE inventory,
                            Tail(sim_open_orders), snapshot)
         IN  IF filled THEN rest
             ELSE [rest EXCEPT !.sim_open_orders = <<order>> \o @]

SimulatorInit == [fn |-> "simulator", sim_open_orders |-> <<>>,
                  event |-> FALSE, pc |-> "idle"]

InitSim ==
    /\ FeedInit
    /\ \E max_inventory \in SimMaxInventories :
          executor = ExecutorInit(max_inventory, MINIMUM_BALANCE)
    /\ lock = "free"
    /\ pc = [t \in Tasks |-> "idle"]
    /\ resp = [t \in Tasks |-> NoResponse]
    /\ exchange = ExchangeInit
    /\ fill_queue = <<>>
    /\ hist = HistInit
    /\ session = SessionInit
    /\ link = LinkListening
    /\ proc = [e \in Executors |-> ProcessorInit]
    /\ call = SimulatorInit

simRest == <<lock, pc, resp, exchange, fill_queue, hist, session, link, proc>>

\* a snapshot frame is applied and BinaryMarket.update calls
\* on_market_update: simulate_fill_logic on the new book, then on_tick
SimMarketUpdate ==
    /\ \E y \in SnapYes, n \in SnapNo :
          HandleSnapshot(1, [yes_dollars |-> y, no_dollars |-> n])
    /\ LET r == simulate_fill_logic(executor.inventory, call.sim_open_orders,
                                    orderbook')
       IN  /\ executor' = [executor EXCEPT !.inventory = r.inventory]
           /\ call' = [call EXCEPT !.sim_open_orders = r.sim_open_orders,
                                   !.event = TRUE]
    /\ UNCHANGED simRest

\* a tick of the underlying: on_tick sets the event
SimOnTick ==
    /\ ~call.event
    /\ call' = [call EXCEPT !.event = TRUE]
    /\ UNCHANGED <<feedVars, executor, simRest>>

\* the processor clears the event; on_tick_action takes the lock and
\* cancels: sim_open_orders is emptied; it may then await add_candle
SimActionStart ==
    /\ call.event /\ call.pc = "idle"
    /\ call' = [call EXCEPT !.event = FALSE, !.pc = "acting",
                            !.sim_open_orders = <<>>]
    /\ UNCHANGED <<feedVars, executor, simRest>>

\* on_tick_action from the snapshots of market and executor to the end:
\* the decision and _place_batch_order, which is simulate_place_orders
SimActionPlace ==
    /\ call.pc = "acting"
    /\ \E true_price \in TruePrices, min_edge \in MinEdges :
          LET order == on_tick_decision(true_price, orderbook.best_bid,
                                        orderbook.best_ask, min_edge,
                                        executor.inventory,
                                        executor.max_inventory)
          IN  call' = [call EXCEPT
                          !.pc = "idle",
                          !.sim_open_orders =
                              IF order = None THEN @
                              ELSE simulate_place_orders(executor, @, order)]
    /\ UNCHANGED <<feedVars, executor, simRest>>

NextSim == SimMarketUpdate \/ SimOnTick \/ SimActionStart \/ SimActionPlace

SpecSim == InitSim /\ [][NextSim]_vars

\* C39: in the options simulator executor, from inventory 0, after any
\* sequence of ticks, market updates, simulated placements and simulated
\* fills, |inventory| <= max_inventory.
C39_SimInventoryWithinLimit ==
    Abs(executor.inventory) <= executor.max_inventory

\* after fills have left a long position of 5 (limit 15), a sell of 10 was
\* split by the flip sale into a sell of 5 YES and a buy of 5 NO, and both
\* rest in sim_open_orders
C39_Witness ==
    /\ call.fn = "simulator"
    /\ executor.max_inventory = 15
    /\ executor.inventory = 5
    /\ Len(call.sim_open_orders) = 2
    /\ call.sim_open_orders[1].action = "sell"
    /\ call.sim_open_orders[1].side = "yes"
    /\ call.sim_open_orders[1].count = 5
    /\ call.sim_open_orders[2].action = "buy"
    /\ call.sim_open_orders[2].side = "no"
    /\ call.sim_open_orders[2].count = 5

-----------------------------------------------------------------------------
\* Claims about the subscription maps of the websocket client (SpecWs)

\* C40: ticker_to_sid and sid_to_ticker are mutual inverses: every ticker's
\* sid maps back to the ticker and every sid's ticker maps back to the sid
C40_MapsInverse ==
    /\ \A t \in Keys(ws.ticker_to_sid) :
          /\ ws.ticker_to_sid[t] \in Keys(ws.sid_to_ticker)
          /\ ws.sid_to_ticker[ws.ticker_to_sid[t]] = t
    /\ \A s \in Keys(ws.sid_to_ticker) :
          /\ ws.sid_to_ticker[s] \in Keys(ws.ticker_to_sid)
          /\ ws.ticker_to_sid[ws.sid_to_ticker[s]] = s

=============================================================================
